---- MODULE Spec2Model ----
(***************************************************************************)
(* Client-side metadata cache of the Ceph kernel client                    *)
(* (src/kernel/inode.c): inode attribute reconciliation, the per-inode     *)
(* fragment tree, inode leases and the inode cache.                        *)
(*                                                                         *)
(* The per-inode state is indexed by inode slot.  Every operation of the   *)
(* source is an operator that maps the state it reads to the state it      *)
(* leaves, wrapped by an action; each specification below draws the        *)
(* inputs of those actions from its own small input sets.                  *)
(***************************************************************************)
EXTENDS Integers, Sequences, FiniteSets, TLC

\* ------------------------------------------------------------------ bounds
\* largest sequence number (truncate_seq, time_warp_seq, version) an MDS reply carries
MaxSeq == 1
\* largest timestamp an MDS reply or a local utimes carries
MaxTime == 1

\* ------------------------------------------------------------ small helpers
None == << >>
Some(x) == << x >>
IsSome(m) == m # << >>
Min(a, b) == IF a < b THEN a ELSE b

\* F applied to the value of v, with v evaluated once
Bind(v, F(_)) == CHOOSE y \in {F(x) : x \in {v}} : TRUE

RECURSIVE Pow2(_)
Pow2(n) == IF n = 0 THEN 1 ELSE 2 * Pow2(n - 1)

\* fls(): position of the most significant set bit, fls(0) = 0
RECURSIVE fls(_)
fls(x) == IF x = 0 THEN 0 ELSE 1 + fls(x \div 2)

\* timespec_compare(a, b): <0, 0, >0
timespec_compare(a, b) == a - b

\* ------------------------------------------------------------- capabilities
CEPH_CAP_EXCL == "EXCL"
CEPH_CAP_WR == "WR"
CEPH_CAP_WRBUFFER == "WRBUFFER"

\* the cap sets an MDS may have issued on an inode (one per reconciler branch,
\* and WR and WRBUFFER apart because local utimes tells them apart)
CapSets == { {}, {CEPH_CAP_WR}, {CEPH_CAP_WRBUFFER}, {CEPH_CAP_EXCL, CEPH_CAP_WR} }

\* --------------------------------------------------------------- inode slots
Inodes == {1, 2}

\* file type bits of i_mode (i_mode & S_IFMT); "NONE" is a mode with no known type
S_IFREG == "REG"
S_IFDIR == "DIR"
S_IFLNK == "LNK"
S_IFIFO == "FIFO"

\* ceph_alloc_inode: the fields of a newly allocated inode
AllocInode ==
  [ i_version |-> 0, inode_i_version |-> 0,
    i_mode |-> "NONE", i_uid |-> 0, i_gid |-> 0, i_nlink |-> 0, i_rdev |-> 0,
    i_size |-> 0, i_blocks |-> 0, i_reported_size |-> 0,
    i_truncate_seq |-> 0, i_time_warp_seq |-> 0,
    i_ctime |-> 0, i_mtime |-> 0, i_atime |-> 0, i_old_atime |-> 0,
    i_max_size |-> 0, i_layout |-> 0, i_blkbits |-> 0,
    i_xattr_len |-> 0, i_xattr_data |-> None,
    i_symlink |-> None,
    i_files |-> 0, i_subdirs |-> 0, i_rbytes |-> 0, i_rfiles |-> 0,
    i_rsubdirs |-> 0, i_rctime |-> 0,
    i_op |-> "none", i_fop |-> "none",
    i_wrbuffer_ref |-> 0,
    i_vmtruncate_to |-> -1 ]

VARIABLES
  ci,            \* ci[in]: attribute state of inode slot in (struct ceph_inode_info + vfs inode)
  i_fragtree,    \* i_fragtree[in]: frag id -> node, the stored nodes only
  issued,        \* issued[in]: caps currently issued on the inode (__ceph_caps_issued)
  mount_rbytes,  \* mount_args.flags & CEPH_MOUNT_RBYTES
  bucket,        \* the stored object of a bucket directory, as encoded
  fault,         \* "none", or the kernel BUG / oops the last operation ran into
  ilease,        \* ilease[in]: the inode's single lease slot (i_lease_session, _gen, _ttl, _mask)
  i_count,       \* i_count[in]: host references on the inode
  sessions,      \* sessions[s]: s_cap_gen, s_cap_ttl, s_inode_leases (head first, tail last)
  jiffies,       \* the kernel tick counter
  last,          \* the operation that made the last step and the path it took
  i_fragtree_mutex, \* i_fragtree_mutex[in]: TRUE while a thread holds the mutex
  cf,            \* the running ceph_choose_frag call: its position and locals
  icache,        \* icache[in]: the VFS inode hash entry of slot in (vino, i_state, i_count)
  getter,        \* getter[p]: thread p's position in ceph_get_inode and what it holds
  dentries,      \* dentries[dn]: the dcache entry of dentry slot dn
  s_root,        \* sb->s_root: the root dentry, 0 before the first reply
  s_dentry_leases, \* s_dentry_leases[s]: the session's dentry lease list (head first)
  req,           \* the MDS request whose reply is assimilated (r_last_dentry, ...)
  i_mutex,       \* i_mutex[in]: TRUE while another thread holds the directory mutex
  run            \* run[p]: the operation thread p is in, its position, the locks it holds

vars == << ci, i_fragtree, issued, mount_rbytes, bucket, fault, ilease, i_count, sessions,
           jiffies, last, i_fragtree_mutex, cf, icache, getter,
           dentries, s_root, s_dentry_leases, req, i_mutex, run >>

chooseSt == << i_fragtree_mutex, cf >>
cacheSt == << icache, getter >>
dcacheSt == << dentries, s_root, s_dentry_leases, req, i_mutex >>

\* ------------------------------------------------------- attribute reconciler
\* i_blocks as the code computes it: (size + (1<<9) - 1) >> 9
SizeToBlocks(size) == (size + 511) \div 512

\* the size half accepting any reported size when the truncate_seq is equal
\* (>= for the two tests)
fill_size_ge_mut(c, truncate_seq, size) ==
  IF truncate_seq >= c.i_truncate_seq
  THEN [c EXCEPT !.i_size = size, !.i_blocks = SizeToBlocks(size),
                 !.i_reported_size = size, !.i_truncate_seq = truncate_seq]
  ELSE c

\* ceph_fill_file_bits, the size half
fill_size(c, truncate_seq, size) ==
  IF truncate_seq > c.i_truncate_seq
     \/ (truncate_seq = c.i_truncate_seq /\ size > c.i_size)
  THEN [c EXCEPT !.i_size = size, !.i_blocks = SizeToBlocks(size),
                 !.i_reported_size = size, !.i_truncate_seq = truncate_seq]
  ELSE c

\* the timestamp half with the WR branch adopting the MDS triple when the
\* time_warp_seq is equal (>= for >)
fill_times_wr_mut(c, iss, time_warp_seq, ctime, mtime, atime) ==
  IF CEPH_CAP_EXCL \in iss
  THEN [c EXCEPT !.i_ctime = IF timespec_compare(ctime, c.i_ctime) > 0 THEN ctime ELSE @]
  ELSE IF time_warp_seq >= c.i_time_warp_seq
       THEN [c EXCEPT !.i_ctime = ctime, !.i_mtime = mtime, !.i_atime = atime,
                      !.i_time_warp_seq = time_warp_seq]
       ELSE c

\* the timestamp half with the time_warp_seq tests dropped: the MDS triple and
\* its time_warp_seq are always adopted
fill_times_seq_mut(c, iss, time_warp_seq, ctime, mtime, atime) ==
  [c EXCEPT !.i_ctime = ctime, !.i_mtime = mtime, !.i_atime = atime,
            !.i_time_warp_seq = time_warp_seq]

\* the timestamp half adopting the MDS triple, without EXCL, also when the
\* reported time_warp_seq went backwards
fill_times_back_mut(c, iss, time_warp_seq, ctime, mtime, atime) ==
  IF CEPH_CAP_EXCL \in iss
  THEN [c EXCEPT !.i_ctime = IF timespec_compare(ctime, c.i_ctime) > 0 THEN ctime ELSE @]
  ELSE IF time_warp_seq > c.i_time_warp_seq
       THEN [c EXCEPT !.i_ctime = ctime, !.i_mtime = mtime, !.i_atime = atime,
                      !.i_time_warp_seq = time_warp_seq]
       ELSE IF time_warp_seq = c.i_time_warp_seq /\ iss # {}
       THEN [c EXCEPT !.i_ctime = IF timespec_compare(ctime, c.i_ctime) > 0 THEN ctime ELSE @,
                      !.i_mtime = IF timespec_compare(mtime, c.i_mtime) > 0 THEN mtime ELSE @,
                      !.i_atime = IF timespec_compare(atime, c.i_atime) > 0 THEN atime ELSE @]
       ELSE [c EXCEPT !.i_ctime = ctime, !.i_mtime = mtime, !.i_atime = atime]

\* ceph_fill_file_bits, the timestamp half
fill_times(c, iss, time_warp_seq, ctime, mtime, atime) ==
  IF CEPH_CAP_EXCL \in iss
  THEN \* local values are the most recent, except possibly ctime
       [c EXCEPT !.i_ctime = IF timespec_compare(ctime, c.i_ctime) > 0 THEN ctime ELSE @]
  ELSE IF iss \cap {CEPH_CAP_WR, CEPH_CAP_WRBUFFER} # {}
  THEN IF time_warp_seq > c.i_time_warp_seq
       THEN [c EXCEPT !.i_ctime = ctime, !.i_mtime = mtime, !.i_atime = atime,
                      !.i_time_warp_seq = time_warp_seq]
       ELSE IF time_warp_seq = c.i_time_warp_seq
       THEN [c EXCEPT !.i_ctime = IF timespec_compare(ctime, c.i_ctime) > 0 THEN ctime ELSE @,
                      !.i_mtime = IF timespec_compare(mtime, c.i_mtime) > 0 THEN mtime ELSE @,
                      !.i_atime = IF timespec_compare(atime, c.i_atime) > 0 THEN atime ELSE @]
       ELSE c
  ELSE \* no write caps: whatever the MDS says is true
       IF time_warp_seq >= c.i_time_warp_seq
       THEN [c EXCEPT !.i_ctime = ctime, !.i_mtime = mtime, !.i_atime = atime,
                      !.i_time_warp_seq = time_warp_seq]
       ELSE c

ceph_fill_file_bits(c, iss, truncate_seq, size, time_warp_seq, ctime, mtime, atime) ==
  Bind(fill_size(c, truncate_seq, size),
       LAMBDA c1 : fill_times(c1, iss, time_warp_seq, ctime, mtime, atime))

\* ------------------------------------------------------------ fragment tree
\* Frag ids are 32-bit words: the high 8 bits hold `bits`, the low 24 bits
\* hold `value`, of which `bits` bits are meaningful.  The meaningful bits are
\* the ones a descent consumes first: ceph_choose_frag extends a frag t by a
\* k-bit suffix i as value(t) | (i << bits(t)).
FragShift == 24
frag_make(b, v) == b * Pow2(FragShift) + (v % Pow2(b))
frag_bits(f) == f \div Pow2(FragShift)
frag_value(f) == f % Pow2(FragShift)
frag_mask(f) == Pow2(frag_bits(f)) - 1
frag_contains_value(f, v) == (v % (frag_mask(f) + 1)) = frag_value(f)

MAX_DIRFRAG_REP == 4

\* __ceph_find_frag: exact-key lookup, NULL (None) when absent
__ceph_find_frag(tree, f) == IF f \in DOMAIN tree THEN Some(tree[f]) ELSE None

\* the node __get_or_create_frag links into the tree
NewFrag == [split_by |-> 0, mds |-> -1, ndist |-> 0, dist |-> << >>]

\* __get_or_create_frag: the tree with f present; err when the allocation fails
__get_or_create_frag(tree, f, alloc_ok) ==
  IF f \in DOMAIN tree THEN [err |-> FALSE, tree |-> tree]
  ELSE IF ~alloc_ok THEN [err |-> TRUE, tree |-> tree]
  ELSE [err |-> FALSE, tree |-> (f :> NewFrag) @@ tree]

\* remove f from the tree (rb_erase + kfree)
TreeErase(tree, f) == [g \in DOMAIN tree \ {f} |-> tree[g]]

\* ceph_fill_dirfrag with the leaf kept (cleared) instead of erased
ceph_fill_dirfrag_keep_mut(tree, dirinfo, alloc_ok) ==
  IF dirinfo.auth < 0 /\ dirinfo.ndist = 0
  THEN IF dirinfo.frag \in DOMAIN tree
       THEN [tree EXCEPT ![dirinfo.frag].mds = -1, ![dirinfo.frag].ndist = 0,
                         ![dirinfo.frag].dist = << >>]
       ELSE tree
  ELSE LET r == __get_or_create_frag(tree, dirinfo.frag, alloc_ok)
           n == Min(dirinfo.ndist, MAX_DIRFRAG_REP)
       IN IF r.err THEN tree
          ELSE [r.tree EXCEPT ![dirinfo.frag].mds = dirinfo.auth,
                              ![dirinfo.frag].ndist = n,
                              ![dirinfo.frag].dist = SubSeq(dirinfo.dist, 1, n)]

\* ceph_fill_dirfrag: the tree after processing the delegation info of one frag
ceph_fill_dirfrag(tree, dirinfo, alloc_ok) ==
  IF dirinfo.auth < 0 /\ dirinfo.ndist = 0
  THEN \* no delegation info needed
       IF dirinfo.frag \notin DOMAIN tree THEN tree
       ELSE IF tree[dirinfo.frag].split_by = 0
            THEN TreeErase(tree, dirinfo.frag)               \* tree leaf, remove
            ELSE [tree EXCEPT ![dirinfo.frag].mds = -1,      \* tree branch, keep and clear
                              ![dirinfo.frag].ndist = 0,
                              ![dirinfo.frag].dist = << >>]
  ELSE LET r == __get_or_create_frag(tree, dirinfo.frag, alloc_ok)
           n == Min(dirinfo.ndist, MAX_DIRFRAG_REP)
       IN IF r.err THEN tree
          ELSE [r.tree EXCEPT ![dirinfo.frag].mds = dirinfo.auth,
                              ![dirinfo.frag].ndist = n,
                              ![dirinfo.frag].dist = SubSeq(dirinfo.dist, 1, n)]

\* ceph_fill_inode, "populate frag tree": splits i..nsplits merged into the tree;
\* frag_fail is the set of split positions whose node allocation fails
RECURSIVE fill_splits(_, _, _, _)
fill_splits(tree, splits, i, frag_fail) ==
  IF i > Len(splits) THEN tree
  ELSE LET r == __get_or_create_frag(tree, splits[i].frag, i \notin frag_fail)
       IN fill_splits(IF r.err THEN tree
                      ELSE [r.tree EXCEPT ![splits[i].frag].split_by = splits[i].by],
                      splits, i + 1, frag_fail)

\* bitwise or of two naturals
RECURSIVE BitOr(_, _)
BitOr(a, b) ==
  IF a = 0 THEN b
  ELSE IF b = 0 THEN a
  ELSE (IF a % 2 = 1 \/ b % 2 = 1 THEN 1 ELSE 0) + 2 * BitOr(a \div 2, b \div 2)

\* the candidate child with the suffix shift dropped: value(t) | i
frag_child_noshift_mut(t, by, i) ==
  frag_make(frag_bits(t) + by, BitOr(frag_value(t), i))

\* ceph_choose_frag, candidate child i of t at a by-bit split:
\* frag_make(frag_bits(t) + split_by, frag_value(t) | (i << frag_bits(t)))
frag_child(t, by, i) ==
  frag_make(frag_bits(t) + by, BitOr(frag_value(t), i * Pow2(frag_bits(t))))

\* the candidate children of t that contain v
child_hits(t, by, v) ==
  { i \in 0 .. Pow2(by) - 1 : frag_contains_value(frag_child(t, by, i), v) }

\* the child loop taking candidate 0 without testing that it contains v
choose_child_first_mut(t, by, v) == [i |-> 0, t |-> frag_child(t, by, 0)]

\* ceph_choose_frag, "choose child": the for loop leaves i at the first
\* candidate that contains v and moves t to it, or at nway with t unchanged
choose_child(t, by, v) ==
  LET hits == child_hits(t, by, v)
  IN IF hits = {} THEN [i |-> Pow2(by), t |-> t]
     ELSE LET i == CHOOSE k \in hits : \A j \in hits : k <= j
          IN [i |-> i, t |-> frag_child(t, by, i)]

\* ceph_choose_frag, one iteration of the while loop at frag t
choose_frag_step(tree, t, v) ==
  LET frag == __ceph_find_frag(tree, t)
  IN IF ~IsSome(frag)
     THEN [pc |-> "out", t |-> t, found |-> 0, pfrag |-> None, bug |-> FALSE]
     ELSE IF frag[1].split_by = 0
     THEN [pc |-> "out", t |-> t, found |-> 1, pfrag |-> frag, bug |-> FALSE]
     ELSE LET c == choose_child(t, frag[1].split_by, v)
          IN [pc |-> "loop", t |-> c.t, found |-> 0, pfrag |-> None,
              bug |-> c.i = Pow2(frag[1].split_by)]           \* BUG_ON(i == nway)

\* ---------------------------------------------------------------- fill inode
\* ceph_fill_inode, the part under i_lock ("update inode"), skipped when the
\* reply version is > 0 and equal to the cached one.  xattr_ok: the kmalloc of
\* the preallocated xattr buffer succeeded.  Returns the inode and the fault.
fill_update(c, iss, r, xattr_ok) ==
  LET prealloc == r.xattr_len # 0 /\ r.xattr_len # c.i_xattr_len /\ xattr_ok
      \* xattrs: the buffer is replaced only when the length changes; with no
      \* preallocated buffer the memcpy goes into the NULL i_xattr_data
      xattrs(c3) ==
        LET newbuf == r.xattr_len # 0 /\ c3.i_xattr_len # r.xattr_len
            oops == newbuf /\ ~prealloc
        IN IF r.xattr_len = 0
           THEN [c |-> [c3 EXCEPT !.i_old_atime = c3.i_atime], fault |-> "none"]
           ELSE IF oops
           THEN [c |-> [c3 EXCEPT !.i_xattr_len = r.xattr_len, !.i_xattr_data = None],
                 fault |-> "oops_xattr"]
           ELSE [c |-> [c3 EXCEPT !.i_xattr_len = r.xattr_len,
                                  !.i_xattr_data = Some(r.xattr_data),
                                  !.i_old_atime = c3.i_atime],
                 fault |-> "none"]
  IN Bind([c EXCEPT !.i_version = r.version,
                    !.inode_i_version = (@ + 1) % 2,   \* the low bit of the u64 counter
                    !.i_mode = r.mode, !.i_uid = r.uid, !.i_gid = r.gid,
                    !.i_nlink = r.nlink, !.i_rdev = r.rdev],
       LAMBDA c1 :
         Bind(ceph_fill_file_bits(c1, iss, r.truncate_seq, r.size, r.time_warp_seq,
                                  r.ctime, r.mtime, r.atime),
              LAMBDA c2 :
                Bind([c2 EXCEPT !.i_max_size = r.max_size, !.i_layout = r.layout,
                                !.i_blkbits = fls(r.layout) - 1],
                     xattrs)))

\* ceph_fill_inode, the switch on the file type; rbytes is the mount flag
fill_type(c, r, sym_ok, rbytes) ==
  CASE c.i_mode = S_IFIFO ->
         [c |-> [c EXCEPT !.i_op = "file", !.i_fop = "special"], err |-> 0, fault |-> "none"]
    [] c.i_mode = S_IFREG ->
         [c |-> [c EXCEPT !.i_op = "file", !.i_fop = "file"], err |-> 0, fault |-> "none"]
    [] c.i_mode = S_IFLNK ->
         LET c1 == [c EXCEPT !.i_op = "symlink"]
         IN IF IsSome(c.i_symlink) THEN [c |-> c1, err |-> 0, fault |-> "none"]
            ELSE IF r.symlink_len # c.i_size
                 THEN [c |-> c1, err |-> 0, fault |-> "bug_symlen"]
            ELSE IF ~sym_ok THEN [c |-> c1, err |-> -12, fault |-> "none"]
            ELSE [c |-> [c1 EXCEPT !.i_symlink = Some(SubSeq(r.symlink, 1, r.symlink_len))],
                  err |-> 0, fault |-> "none"]
    [] c.i_mode = S_IFDIR ->
         LET c1 == [c EXCEPT !.i_op = "dir", !.i_fop = "dir",
                             !.i_files = r.files, !.i_subdirs = r.subdirs,
                             !.i_rbytes = r.rbytes, !.i_rfiles = r.rfiles,
                             !.i_rsubdirs = r.rsubdirs, !.i_rctime = r.rctime]
         IN [c |-> IF rbytes THEN [c1 EXCEPT !.i_size = c1.i_rbytes] ELSE c1,
             err |-> 0, fault |-> "none"]
    [] OTHER -> [c |-> c, err |-> -22, fault |-> "none"]

\* ceph_fill_inode after the locked part left u = [c, fault]: the fragment
\* tree merge, the dirfrag info and the switch on the file type
fill_rest(u, tree, r, dirinfo, a, rbytes) ==
  IF u.fault # "none" THEN [c |-> u.c, tree |-> tree, err |-> 0, fault |-> u.fault]
  ELSE Bind(fill_splits(tree, r.splits, 1, a.frag_fail),
         LAMBDA t1 :
           Bind(fill_type(u.c, r, a.sym_ok, rbytes),
             LAMBDA ty :
               [c |-> ty.c,
                tree |-> IF IsSome(dirinfo)
                         THEN ceph_fill_dirfrag(t1, dirinfo[1], a.dir_ok) ELSE t1,
                err |-> ty.err, fault |-> ty.fault]))

\* ceph_fill_inode with the version test dropped: the update path always runs
ceph_fill_inode_nover_mut(c, tree, iss, r, dirinfo, a, rbytes) ==
  Bind(fill_update(c, iss, r, a.xattr_ok),
       LAMBDA u : fill_rest(u, tree, r, dirinfo, a, rbytes))

\* ceph_fill_inode: the inode c and its fragment tree after a reply r with
\* optional dirfrag info; a gives the outcome of each allocation of the call
ceph_fill_inode(c, tree, iss, r, dirinfo, a, rbytes) ==
  Bind(IF r.version > 0 /\ c.i_version = r.version
       THEN [c |-> c, fault |-> "none"]                       \* no_change
       ELSE fill_update(c, iss, r, a.xattr_ok),
       LAMBDA u : fill_rest(u, tree, r, dirinfo, a, rbytes))

\* --------------------------------------------------------------- inode cache
CEPH_NOSNAP == "NOSNAP"
CEPH_SNAPDIR == "SNAPDIR"

\* the vinos looked up: an inode, its snapdir (same ino) and another inode
Vinos == { [ino |-> 1, snap |-> CEPH_NOSNAP], [ino |-> 1, snap |-> CEPH_SNAPDIR],
           [ino |-> 2, snap |-> CEPH_NOSNAP] }

Threads == {1, 2}

\* a thread in no operation: it holds no lock; v are the locals of the lease
\* checks (havemask covers the mask, valid, the result, the session's gen and ttl)
NoLocals == [have |-> FALSE, valid |-> FALSE, lv |-> FALSE, gen |-> 0, ttl |-> 0,
             to |-> -1, wrbuffer_refs |-> 0]
IdleRun == [op |-> "idle", pc |-> "idle", held |-> << >>, a |-> << >>, v |-> NoLocals]

\* an unused slot of the inode slab, and a thread outside ceph_get_inode
FreeSlot == [vino |-> [ino |-> 0, snap |-> CEPH_NOSNAP], i_state |-> "free"]
IdleGetter == [pc |-> "idle", vino |-> [ino |-> 0, snap |-> CEPH_NOSNAP], in |-> 0]

\* ceph_vino_to_ino: the hash value of a vino; the snap is not part of it
ceph_vino_to_ino(vino) == vino.ino

\* ceph_ino_compare: the test callback, both halves of the vino
ceph_ino_compare(rec, vino) == rec.vino.ino = vino.ino /\ rec.vino.snap = vino.snap

\* iget5_locked(sb, hashval, test, set, data): the hashed inode with this hash
\* value that passes test, else the slab slot alloc (None when the allocation
\* fails) hashed as I_NEW with set(data) applied.  One atomic step under
\* inode_lock.  passes is the set of slots whose inode test(inode, data)
\* accepts; in = 0 is the NULL return.
iget5_locked(cache, hashval, passes, data, alloc) ==
  LET hit == { in \in DOMAIN cache :
                 /\ cache[in].i_state # "free"
                 /\ ceph_vino_to_ino(cache[in].vino) = hashval
                 /\ in \in passes }
  IN IF hit # {}
     THEN [in |-> CHOOSE in \in hit : TRUE, cache |-> cache, created |-> FALSE]
     ELSE IF ~IsSome(alloc) THEN [in |-> 0, cache |-> cache, created |-> FALSE]
     ELSE [in |-> alloc[1],
           cache |-> [cache EXCEPT ![alloc[1]] = [vino |-> data, i_state |-> "new"]],
           created |-> TRUE]

\* ceph_get_inode looking the inode up by its hash value alone (as iget_locked does)
ceph_get_inode_hashonly_mut(cache, vino, alloc) ==
  iget5_locked(cache, ceph_vino_to_ino(vino), DOMAIN cache, vino, alloc)

\* ceph_get_inode up to the return of iget5_locked
ceph_get_inode(cache, vino, alloc) ==
  iget5_locked(cache, ceph_vino_to_ino(vino),
               { in \in DOMAIN cache : ceph_ino_compare(cache[in], vino) }, vino, alloc)

\* -------------------------------------------------------------- inode leases
\* lease mask bits; CEPH_LOCK_ICONTENT is the multi-bit directory/file content mask
CEPH_LOCK_ICONTENT == {"IFILE", "IDIR"}
CEPH_LOCK_IAUTH == {"IAUTH"}

Sessions == {1, 2}
NoSession == 0

HZ == 250

\* time_before(a, b): a is before b
time_before(a, b) == a < b

\* the inode lease slot ceph_alloc_inode leaves
AllocLease == [i_lease_session |-> NoSession, i_lease_gen |-> 0,
               i_lease_ttl |-> 0, i_lease_mask |-> {}]

\* list_move_tail(item, list): item unlinked from where it is, appended at the tail
list_move_tail(list, item) == SelectSeq(list, LAMBDA x : x # item) \o << item >>
list_del_init(list, item) == SelectSeq(list, LAMBDA x : x # item)

\* ttl = from_time + (duration * HZ) / 1000
lease_ttl(from_time, duration_ms) == from_time + (duration_ms * HZ) \div 1000

\* update_inode_lease accepting a lease whatever session holds the inode's
update_inode_lease_anysess_mut(l, sess, s, lease, from_time) ==
  LET ttl == lease_ttl(from_time, lease.duration_ms)
  IN IF lease.mask = {} THEN [l |-> l, moved |-> FALSE, is_new |-> FALSE, mask |-> {}]
     ELSE IF (l.i_lease_ttl = 0 \/ ~time_before(ttl, l.i_lease_ttl)
                \/ l.i_lease_gen # sess.s_cap_gen)
     THEN [l |-> [i_lease_session |-> s, i_lease_gen |-> sess.s_cap_gen,
                  i_lease_ttl |-> ttl, i_lease_mask |-> lease.mask],
           moved |-> TRUE,
           is_new |-> (l.i_lease_session = NoSession), mask |-> lease.mask]
     ELSE [l |-> l, moved |-> FALSE, is_new |-> FALSE, mask |-> {}]

\* update_inode_lease taking a reference on every accepted lease
update_inode_lease_ref_mut(l, sess, s, lease, from_time) ==
  LET ttl == lease_ttl(from_time, lease.duration_ms)
  IN IF lease.mask = {} THEN [l |-> l, moved |-> FALSE, is_new |-> FALSE, mask |-> {}]
     ELSE IF (l.i_lease_ttl = 0 \/ ~time_before(ttl, l.i_lease_ttl)
                \/ l.i_lease_gen # sess.s_cap_gen)
             /\ (l.i_lease_session = NoSession \/ l.i_lease_session = s)
     THEN [l |-> [i_lease_session |-> s, i_lease_gen |-> sess.s_cap_gen,
                  i_lease_ttl |-> ttl, i_lease_mask |-> lease.mask],
           moved |-> TRUE, is_new |-> TRUE, mask |-> lease.mask]
     ELSE [l |-> l, moved |-> FALSE, is_new |-> FALSE, mask |-> {}]

\* update_inode_lease on lease slot l of the inode, for session record sess with
\* id s: the slot, whether the item moves to the tail of s_inode_leases
\* (moved), whether a reference is taken (is_new), and the returned mask
update_inode_lease(l, sess, s, lease, from_time) ==
  LET ttl == lease_ttl(from_time, lease.duration_ms)
  IN IF lease.mask = {} THEN [l |-> l, moved |-> FALSE, is_new |-> FALSE, mask |-> {}]
     ELSE IF (l.i_lease_ttl = 0 \/ ~time_before(ttl, l.i_lease_ttl)
                \/ l.i_lease_gen # sess.s_cap_gen)
             /\ (l.i_lease_session = NoSession \/ l.i_lease_session = s)
     THEN [l |-> [i_lease_session |-> s, i_lease_gen |-> sess.s_cap_gen,
                  i_lease_ttl |-> ttl, i_lease_mask |-> lease.mask],
           moved |-> TRUE,
           is_new |-> (l.i_lease_session = NoSession), mask |-> lease.mask]
     ELSE [l |-> l, moved |-> FALSE, is_new |-> FALSE, mask |-> {}]

\* ceph_inode_lease_valid without the generation test
ceph_inode_lease_valid_nogen_mut(l, sess, iss, now, mask) ==
  LET have0 == l.i_lease_mask
                 \cup (IF mask \cap CEPH_LOCK_ICONTENT # {} /\ CEPH_CAP_EXCL \in iss
                       THEN CEPH_LOCK_ICONTENT ELSE {})
      havemask == IF have0 \cap CEPH_LOCK_ICONTENT # {}
                  THEN have0 \cup CEPH_LOCK_ICONTENT ELSE have0
      valid == l.i_lease_session # NoSession
               /\ time_before(now, sess[l.i_lease_session].s_cap_ttl)
               /\ time_before(now, l.i_lease_ttl)
  IN valid /\ (havemask \cap mask) = mask

\* ceph_inode_lease_valid(inode, mask) at time now; sess is the session table
ceph_inode_lease_valid(l, sess, iss, now, mask) ==
  LET have0 == l.i_lease_mask
                 \cup (IF mask \cap CEPH_LOCK_ICONTENT # {} /\ CEPH_CAP_EXCL \in iss
                       THEN CEPH_LOCK_ICONTENT ELSE {})
      \* any ICONTENT bits imply all ICONTENT bits
      havemask == IF have0 \cap CEPH_LOCK_ICONTENT # {}
                  THEN have0 \cup CEPH_LOCK_ICONTENT ELSE have0
      valid == l.i_lease_session # NoSession
               /\ sess[l.i_lease_session].s_cap_gen = l.i_lease_gen
               /\ time_before(now, sess[l.i_lease_session].s_cap_ttl)
               /\ time_before(now, l.i_lease_ttl)
  IN valid /\ (havemask \cap mask) = mask

\* the lease state (slots, references, session lists) after update_inode_lease
\* on inode in from session s; ret is the returned mask
apply_update_inode_lease(il, cnt, sess, in, s, lease, from_time) ==
  LET u == update_inode_lease(il[in], sess[s], s, lease, from_time)
  IN [ilease |-> [il EXCEPT ![in] = u.l],
      i_count |-> IF u.is_new THEN [cnt EXCEPT ![in] = @ + 1] ELSE cnt,   \* igrab
      sessions |-> IF u.moved
                   THEN [sess EXCEPT ![s].s_inode_leases = list_move_tail(@, in)]
                   ELSE sess,
      ret |-> u.mask]

\* ceph_mdsc_lease_release(mdsc, inode, NULL, mask): the held bits in mask are
\* given back; a lease left with no bits is unlinked and its reference dropped
ceph_mdsc_lease_release(il, cnt, sess, in, mask) ==
  LET l == il[in]
      left == l.i_lease_mask \ mask
  IN IF l.i_lease_session = NoSession \/ l.i_lease_mask \cap mask = {}
     THEN [ilease |-> il, i_count |-> cnt, sessions |-> sess]
     ELSE IF left # {}
     THEN [ilease |-> [il EXCEPT ![in].i_lease_mask = left], i_count |-> cnt,
           sessions |-> sess]
     ELSE [ilease |-> [il EXCEPT ![in].i_lease_mask = {},
                                 ![in].i_lease_session = NoSession],
           i_count |-> [cnt EXCEPT ![in] = @ - 1],
           sessions |-> [sess EXCEPT ![l.i_lease_session].s_inode_leases =
                                        list_del_init(@, in)]]

\* ------------------------------------------------------ local size and times
ATTR_ATIME == "ATIME"
ATTR_MTIME == "MTIME"

\* ceph_setattr_time: attr = [ia_valid, ia_atime, ia_mtime]; now is CURRENT_TIME;
\* lv is ceph_inode_lease_valid(inode, CEPH_LOCK_ICONTENT).  res tells the
\* path taken: done locally, a no-op under the lease, or an MDS request
ceph_setattr_time(c, iss, lv, attr, now) ==
  LET set == [c EXCEPT !.i_atime = IF ATTR_ATIME \in attr.ia_valid THEN attr.ia_atime ELSE @,
                       !.i_mtime = IF ATTR_MTIME \in attr.ia_valid THEN attr.ia_mtime ELSE @,
                       !.i_ctime = now]
  IN IF CEPH_CAP_EXCL \in iss
     THEN [c |-> [set EXCEPT !.i_time_warp_seq = @ + 1], res |-> "local"]
     ELSE IF CEPH_CAP_WR \in iss
             /\ (ATTR_MTIME \notin attr.ia_valid
                 \/ timespec_compare(c.i_mtime, attr.ia_mtime) < 0)
             /\ (ATTR_ATIME \notin attr.ia_valid
                 \/ timespec_compare(c.i_atime, attr.ia_atime) < 0)
     THEN [c |-> set, res |-> "local"]
     ELSE IF lv /\ ~( (ATTR_ATIME \in attr.ia_valid /\ c.i_atime # attr.ia_atime)
                      \/ (ATTR_MTIME \in attr.ia_valid /\ c.i_mtime # attr.ia_mtime))
     THEN [c |-> c, res |-> "noop"]
     ELSE [c |-> c, res |-> "request"]

\* ceph_setattr_size: vm_ok is the outcome of vmtruncate(); on the request
\* path the pending truncate is consumed after the request returns
ceph_setattr_size(c, iss, lv, ia_size, ia_ctime, vm_ok) ==
  IF CEPH_CAP_EXCL \in iss /\ ia_size > c.i_size
  THEN IF ~vm_ok THEN [c |-> c, res |-> "error"]
       ELSE [c |-> [c EXCEPT !.i_size = ia_size, !.i_ctime = ia_ctime,
                             !.i_reported_size = ia_size],
             res |-> "local"]
  ELSE IF lv /\ ia_size = c.i_size
  THEN [c |-> c, res |-> "noop"]
  ELSE [c |-> [c EXCEPT !.i_vmtruncate_to = -1], res |-> "request"]

\* ceph_inode_set_size
ceph_inode_set_size(c, size) ==
  [c EXCEPT !.i_size = size, !.i_blocks = SizeToBlocks(size)]

\* -------------------------------------------------------------------- dcache
\* The host dcache.  A world w is the state an operation works on: the inode
\* cache and the per-inode tables, the dentry table, the session lists, the
\* request, the fault, and ev, the trail of the steps the operation made.
NoDentry == 0

\* an unused slot of the dentry slab
FreeDentry == [live |-> FALSE, d_parent |-> 0, d_name |-> "", d_inode |-> 0,
               hashed |-> FALSE, d_count |-> 0, d_time |-> 0, d_fsdata |-> None]

\* the dentry slots of the mount
Dentries == {1, 2, 3, 4}

\* a request that holds nothing
NoReq == [r_last_dentry |-> NoDentry, r_last_inode |-> 0, r_old_dentry |-> NoDentry,
          r_locked_dir |-> 0, r_request_started |-> 0]

LowestOf(S) == CHOOSE x \in S : \A y \in S : x <= y

\* the trail gains a step
Note(w, e) == [w EXCEPT !.ev = Append(@, e)]

\* iput / igrab on an inode that stays hashed
iput(w, in) == [w EXCEPT !.i_count[in] = @ - 1]
igrab(w, in) == [w EXCEPT !.i_count[in] = @ + 1]

\* dget(dentry)
dget(w, dn) == [w EXCEPT !.dentries[dn].d_count = @ + 1]

\* dput(dentry): the reference is dropped; an unhashed dentry nobody holds is
\* killed: its inode reference and its reference on the parent are dropped
RECURSIVE dput(_, _)
dput(w, dn) ==
  IF dn = NoDentry THEN w
  ELSE LET d == w.dentries[dn]
       IN IF d.d_count > 1 \/ d.hashed
          THEN [w EXCEPT !.dentries[dn].d_count = @ - 1]
          ELSE LET w1 == [w EXCEPT !.dentries[dn] = FreeDentry]
                   w2 == IF d.d_inode # 0 THEN iput(w1, d.d_inode) ELSE w1
               IN IF d.d_parent = dn THEN w2 ELSE dput(w2, d.d_parent)

\* d_lookup(parent, name): the hashed dentry of that name under parent, with a
\* reference taken, or NULL
d_lookup(w, parent, name) ==
  LET hit == { dn \in DOMAIN w.dentries :
                 /\ w.dentries[dn].live /\ w.dentries[dn].hashed
                 /\ w.dentries[dn].d_parent = parent /\ w.dentries[dn].d_name = name }
  IN IF hit = {} THEN [w |-> w, dn |-> NoDentry]
     ELSE Bind(LowestOf(hit), LAMBDA dn : [w |-> dget(w, dn), dn |-> dn])

\* d_alloc(parent, name): a new unhashed negative dentry holding a reference
\* on its parent; NULL when the slab has no memory (ok) or no slot
d_alloc(w, parent, name, ok) ==
  LET free == { dn \in DOMAIN w.dentries : ~w.dentries[dn].live }
  IN IF ~ok \/ free = {} THEN [w |-> w, dn |-> NoDentry]
     ELSE Bind(LowestOf(free), LAMBDA dn :
            [w |-> [w EXCEPT !.dentries[dn] =
                               [FreeDentry EXCEPT !.live = TRUE, !.d_parent = parent,
                                                  !.d_name = name, !.d_count = 1],
                             !.dentries[parent].d_count = @ + 1],
             dn |-> dn])

\* d_alloc_root(inode): the root dentry, its own parent
d_alloc_root(w, in, ok) ==
  LET free == { dn \in DOMAIN w.dentries : ~w.dentries[dn].live }
  IN IF ~ok \/ free = {} THEN [w |-> w, dn |-> NoDentry]
     ELSE Bind(LowestOf(free), LAMBDA dn :
            [w |-> [w EXCEPT !.dentries[dn] =
                               [FreeDentry EXCEPT !.live = TRUE, !.d_parent = dn,
                                                  !.d_name = "/", !.d_count = 1,
                                                  !.d_inode = in]],
             dn |-> dn])

\* d_delete(dentry): the only holder turns the dentry negative (and drops the
\* inode reference); otherwise the dentry is unhashed and keeps its inode
d_delete(w, dn) ==
  LET d == w.dentries[dn]
  IN IF d.d_count = 1
     THEN IF d.d_inode = 0 THEN w
          ELSE iput([w EXCEPT !.dentries[dn].d_inode = 0], d.d_inode)
     ELSE [w EXCEPT !.dentries[dn].hashed = FALSE]

d_drop(w, dn) == [w EXCEPT !.dentries[dn].hashed = FALSE]
d_rehash(w, dn) == [w EXCEPT !.dentries[dn].hashed = TRUE]
d_unhashed(w, dn) == ~w.dentries[dn].hashed

\* d_instantiate(dentry, inode): the caller's inode reference goes to the dentry
d_instantiate(w, dn, in) == [w EXCEPT !.dentries[dn].d_inode = in]

\* d_add(dentry, inode)
d_add(w, dn, in) == d_rehash(d_instantiate(w, dn, in), dn)

\* d_move(dentry, target): dentry takes the name and the parent of target and
\* is hashed there; target takes those of dentry and is unhashed
d_move(w, dn, target) ==
  LET d == w.dentries[dn]
      t == w.dentries[target]
  IN [w EXCEPT !.dentries[dn].d_parent = IF t.d_parent = target THEN dn ELSE t.d_parent,
               !.dentries[dn].d_name = t.d_name,
               !.dentries[dn].hashed = TRUE,
               !.dentries[target].d_parent = IF d.d_parent = dn THEN target ELSE d.d_parent,
               !.dentries[target].d_name = d.d_name,
               !.dentries[target].hashed = FALSE]

\* the dentries d_find_alias(inode) looks at: those bound to inode, hashed
\* unless inode is a directory
Aliases(w, in) ==
  { dn \in DOMAIN w.dentries :
      /\ w.dentries[dn].live /\ w.dentries[dn].d_inode = in
      /\ (w.dentries[dn].hashed \/ w.ci[in].i_mode = S_IFDIR) }

\* the alias taken: a connected one if there is one
PickAlias(w, in) ==
  LET conn == { dn \in Aliases(w, in) : w.dentries[dn].d_parent # dn }
  IN LowestOf(IF conn # {} THEN conn ELSE Aliases(w, in))

\* d_find_alias(inode): an alias with a reference taken, or NULL
d_find_alias(w, in) ==
  IF Aliases(w, in) = {} THEN [w |-> w, dn |-> NoDentry]
  ELSE Bind(PickAlias(w, in), LAMBDA dn : [w |-> dget(w, dn), dn |-> dn])

\* d_alloc_anon(inode): an alias if there is one, else a new anonymous dentry
\* (its own parent, hashed on the anonymous list) bound to inode with a
\* reference of its own; NULL without memory
d_alloc_anon(w, in, ok) ==
  LET free == { dn \in DOMAIN w.dentries : ~w.dentries[dn].live }
  IN IF Aliases(w, in) # {} THEN d_find_alias(w, in)
     ELSE IF ~ok \/ free = {} THEN [w |-> w, dn |-> NoDentry]
     ELSE Bind(LowestOf(free), LAMBDA dn :
            [w |-> igrab([w EXCEPT !.dentries[dn] =
                                     [FreeDentry EXCEPT !.live = TRUE, !.d_parent = dn,
                                                        !.d_name = "", !.d_count = 1,
                                                        !.d_inode = in, !.hashed = TRUE]],
                         in),
             dn |-> dn])

\* d_materialise_unique(dentry, inode) on an unhashed negative dentry.  A
\* directory inode that has an alias keeps that one dentry: the alias is moved
\* to the place of dentry and returned (the caller's inode reference is
\* dropped), or the move cannot take its locks (ok = FALSE) and an error comes
\* back.  Otherwise dentry is bound to inode and hashed, and NULL comes back.
d_materialise_unique(w, dn, in, ok) ==
  IF w.ci[in].i_mode = S_IFDIR /\ Aliases(w, in) # {}
  THEN IF ~ok THEN [w |-> w, realdn |-> NoDentry, err |-> -16]
       ELSE Bind(PickAlias(w, in), LAMBDA alias :
              [w |-> iput(d_move(dget(w, alias), alias, dn), in),
               realdn |-> alias, err |-> 0])
  ELSE [w |-> d_add(w, dn, in), realdn |-> NoDentry, err |-> 0]

\* ceph_init_dentry(dentry): the dentry carries no lease time
ceph_init_dentry(w, dn) == [w EXCEPT !.dentries[dn].d_time = 0]

\* ------------------------------------------------------------- dentry leases
CEPH_LOCK_DN == {"DN"}

\* list_add(item, list): item linked in right after the list head
list_add(list, item) == << item >> \o list

\* update_dentry_lease that touches an existing lease without renewing d_time
update_dentry_lease_touch_mut(w, dn, lease, s, from_time, di_ok) ==
  LET d == w.dentries[dn]
      di == d.d_fsdata
      ttl == lease_ttl(from_time, lease.duration_ms)
      dir == w.dentries[d.d_parent].d_inode
  IN IF lease.mask = {}
     THEN IF dir = 0 THEN [w EXCEPT !.fault = "oops_null_dir"]
          ELSE [w EXCEPT !.dentries[dn].d_time = w.ci[dir].i_version]
     ELSE IF d.d_time # 0 /\ IsSome(di) /\ di[1].lease_gen = w.sessions[s].s_cap_gen
             /\ time_before(ttl, d.d_time)
     THEN w
     ELSE IF ~IsSome(di)
     THEN IF ~di_ok THEN w
          ELSE [w EXCEPT !.dentries[dn].d_fsdata =
                           Some([lease_session |-> s,
                                 lease_gen |-> w.sessions[s].s_cap_gen]),
                         !.s_dentry_leases[s] = list_add(@, dn),
                         !.dentries[dn].d_time = ttl,
                         !.dentries[dn].d_count = @ + 1]
     ELSE IF di[1].lease_session # s THEN w
     ELSE [w EXCEPT !.s_dentry_leases[s] = list_move_tail(@, dn)]

\* update_dentry_lease(dentry, lease, session, from_time); di_ok: the kmalloc
\* of the lease record succeeds
update_dentry_lease(w, dn, lease, s, from_time, di_ok) ==
  LET d == w.dentries[dn]
      di == d.d_fsdata
      ttl == lease_ttl(from_time, lease.duration_ms)
      dir == w.dentries[d.d_parent].d_inode
  IN IF lease.mask = {}
     THEN \* no per-dentry lease: d_time matches the parent directory version
          IF dir = 0 THEN [w EXCEPT !.fault = "oops_null_dir"]
          ELSE [w EXCEPT !.dentries[dn].d_time = w.ci[dir].i_version]
     ELSE IF d.d_time # 0 /\ IsSome(di) /\ di[1].lease_gen = w.sessions[s].s_cap_gen
             /\ time_before(ttl, d.d_time)
     THEN w                                        \* we already have a newer lease
     ELSE IF ~IsSome(di)
     THEN IF ~di_ok THEN w                         \* oh well
          ELSE [w EXCEPT !.dentries[dn].d_fsdata =
                           Some([lease_session |-> s,
                                 lease_gen |-> w.sessions[s].s_cap_gen]),
                         !.s_dentry_leases[s] = list_add(@, dn),
                         !.dentries[dn].d_time = ttl,
                         !.dentries[dn].d_count = @ + 1]            \* lease dget
     ELSE IF di[1].lease_session # s THEN w
     ELSE [w EXCEPT !.s_dentry_leases[s] = list_move_tail(@, dn),   \* touch existing
                    !.dentries[dn].d_time = ttl]

\* ceph_dentry_lease_valid(dentry) at time now
ceph_dentry_lease_valid(w, dn, now) ==
  LET di == w.dentries[dn].d_fsdata
  IN /\ IsSome(di)
     /\ di[1].lease_gen = w.sessions[di[1].lease_session].s_cap_gen
     /\ time_before(now, w.dentries[dn].d_time)
     /\ time_before(now, w.sessions[di[1].lease_session].s_cap_ttl)

\* splice_dentry(dn, in, prehash): dn bound to in, or the alias the host
\* prefers; rehashed only if prehash; ok: d_materialise_unique succeeds
splice_dentry(w, dn, in, prehash, ok) ==
  Bind(d_materialise_unique(IF d_unhashed(w, dn) THEN w ELSE d_drop(w, dn), dn, in, ok),
    LAMBDA m :
      IF m.err # 0 THEN [w |-> m.w, dn |-> dn, prehash |-> FALSE]
      ELSE Bind(IF m.realdn # NoDentry
                THEN [w |-> ceph_init_dentry(dput(m.w, dn), m.realdn), dn |-> m.realdn]
                ELSE [w |-> m.w, dn |-> dn],
             LAMBDA r :
               [w |-> IF prehash /\ d_unhashed(r.w, r.dn) THEN d_rehash(r.w, r.dn)
                      ELSE r.w,
                dn |-> r.dn, prehash |-> prehash]))

\* ------------------------------------------------------------ trace of a reply
ENOMEM == 12

\* the retries of one lookup after which the walk is taken not to end
MaxRetry == 3

\* ceph_get_inode(sb, vino) in world w: the inode with a reference taken, new
\* and unlocked if it was not cached; in = 0 is ERR_PTR(-ENOMEM)
world_get_inode(w, vino, ok) ==
  LET free == { in \in DOMAIN w.icache : w.icache[in].i_state = "free" }
      g == ceph_get_inode(w.icache, vino,
                          IF ok /\ free # {} THEN Some(LowestOf(free)) ELSE None)
  IN IF g.in = 0 THEN [w |-> w, in |-> 0]
     ELSE IF ~g.created THEN [w |-> igrab(w, g.in), in |-> g.in]
     ELSE [w |-> [w EXCEPT !.icache = [g.cache EXCEPT ![g.in].i_state = "live"],
                           !.i_count[g.in] = 1,
                           !.ci[g.in] = AllocInode,
                           !.i_fragtree[g.in] = << >>,
                           !.issued[g.in] = {},
                           !.ilease[g.in] = AllocLease],
           in |-> g.in]

\* ceph_get_snapdir(parent): the inode (ino of parent, SNAPDIR) made to look
\* like the directory it belongs to
ceph_get_snapdir(w, parent, ok) ==
  Bind(world_get_inode(w, [ino |-> w.icache[parent].vino.ino, snap |-> CEPH_SNAPDIR], ok),
    LAMBDA g :
      IF g.in = 0 THEN g
      ELSE [w |-> [g.w EXCEPT !.ci[g.in].i_mode = w.ci[parent].i_mode,
                              !.ci[g.in].i_uid = w.ci[parent].i_uid,
                              !.ci[g.in].i_gid = w.ci[parent].i_gid,
                              !.ci[g.in].i_op = "dir", !.ci[g.in].i_fop = "dir"],
            in |-> g.in])

\* ceph_fill_inode(in, info, dirinfo) in world w
world_fill_inode(w, in, info, dirinfo, a) ==
  Bind(ceph_fill_inode(w.ci[in], w.i_fragtree[in], w.issued[in], info, dirinfo, a,
                       w.mount_rbytes),
    LAMBDA f :
      [w |-> Note([w EXCEPT !.ci[in] = f.c, !.i_fragtree[in] = f.tree, !.fault = f.fault],
                  << "fill", in, dirinfo >>),
       err |-> f.err])

\* update_inode_lease(in, lease, session, from_time) in world w
world_update_inode_lease(w, in, lease, s) ==
  Bind(apply_update_inode_lease(w.ilease, w.i_count, w.sessions, in, s, lease,
                                w.req.r_request_started),
    LAMBDA u :
      [w |-> Note([w EXCEPT !.ilease = u.ilease, !.i_count = u.i_count,
                            !.sessions = u.sessions], << "ilease", in >>),
       mask |-> u.ret])

\* mutex_unlock(&parent->d_inode->i_mutex) unless the request holds the mutex
trace_unlock(w, pin) ==
  IF w.req.r_locked_dir # pin THEN Note(w, << "unlock", pin >>) ELSE w

\* out_dir_no_inode leaving without mutex_unlock
trace_out_dir_no_inode_held_mut(x, w, dn, err) ==
  [x EXCEPT !.w = w, !.dn = dn, !.in = 0, !.err = err, !.brk = TRUE]

\* the walk stopped at dentry level x.d with error err (out_dir_no_inode)
trace_out_dir_no_inode(x, w, dn, err) ==
  [x EXCEPT !.w = trace_unlock(w, x.pin), !.dn = dn, !.in = 0, !.err = err,
            !.brk = TRUE]

\* update_inode leaving the dentry as it is when ceph_fill_inode fails
trace_update_inode_keep_mut(x, rinfo, a) ==
  IF x.dn = NoDentry THEN [x EXCEPT !.w.fault = "oops_null_dn", !.brk = TRUE]
  ELSE IF x.w.dentries[x.dn].d_inode # x.in
  THEN [x EXCEPT !.w.fault = "bug_dn_inode", !.brk = TRUE]
  ELSE
  Bind(world_fill_inode(x.w, x.in, rinfo.trace_in[x.d + 2].info,
                        IF rinfo.trace_numd <= x.d THEN rinfo.trace_dir[x.d + 2] ELSE None,
                        a.fill),
    LAMBDA f :
      IF f.w.fault # "none" THEN [x EXCEPT !.w = f.w, !.brk = TRUE]
      ELSE IF f.err < 0
      THEN [x EXCEPT !.w = f.w, !.dn = NoDentry, !.in = 0,
                     !.err = f.err, !.brk = TRUE]
      ELSE Bind(dput(f.w, x.parent), LAMBDA w1 :
        IF x.d # rinfo.trace_numi - rinfo.trace_snapdirpos - 1
        THEN [x EXCEPT !.w = w1, !.parent = NoDentry, !.d = x.d + 1]
        ELSE Bind(ceph_get_snapdir(w1, x.in, a.inode_ok), LAMBDA sd :
          IF sd.in = 0
          THEN [x EXCEPT !.w = [w1 EXCEPT !.fault = "oops_err_ptr"], !.brk = TRUE]
          ELSE Bind(d_find_alias(dput(sd.w, x.dn), sd.in), LAMBDA al :
            IF al.dn # NoDentry
            THEN [x EXCEPT !.w = iput(al.w, sd.in), !.dn = al.dn,
                           !.parent = NoDentry, !.d = x.d + 1]
            ELSE \* parent is NULL here: parent->d_sb
                 [x EXCEPT !.w = [al.w EXCEPT !.fault = "oops_null_parent"],
                           !.dn = NoDentry, !.parent = NoDentry, !.brk = TRUE]))))

\* update_inode: the inode attached at level x.d is filled; then the walk may
\* diverge into the snapdir of that inode
trace_update_inode(x, rinfo, a) ==
  IF x.dn = NoDentry THEN [x EXCEPT !.w.fault = "oops_null_dn", !.brk = TRUE]
  ELSE IF x.w.dentries[x.dn].d_inode # x.in
  THEN [x EXCEPT !.w.fault = "bug_dn_inode", !.brk = TRUE]
  ELSE
  Bind(world_fill_inode(x.w, x.in, rinfo.trace_in[x.d + 2].info,
                        IF rinfo.trace_numd <= x.d THEN rinfo.trace_dir[x.d + 2] ELSE None,
                        a.fill),
    LAMBDA f :
      IF f.w.fault # "none" THEN [x EXCEPT !.w = f.w, !.brk = TRUE]
      ELSE IF f.err < 0
      THEN [x EXCEPT !.w = d_delete(f.w, x.dn), !.dn = NoDentry, !.in = 0,
                     !.err = f.err, !.brk = TRUE]
      ELSE Bind(dput(f.w, x.parent), LAMBDA w1 :
        IF x.d # rinfo.trace_numi - rinfo.trace_snapdirpos - 1
        THEN [x EXCEPT !.w = w1, !.parent = NoDentry, !.d = x.d + 1]
        ELSE Bind(ceph_get_snapdir(w1, x.in, a.inode_ok), LAMBDA sd :
          IF sd.in = 0
          THEN [x EXCEPT !.w = [w1 EXCEPT !.fault = "oops_err_ptr"], !.brk = TRUE]
          ELSE Bind(d_find_alias(dput(sd.w, x.dn), sd.in), LAMBDA al :
            IF al.dn # NoDentry
            THEN [x EXCEPT !.w = iput(al.w, sd.in), !.dn = al.dn,
                           !.parent = NoDentry, !.d = x.d + 1]
            ELSE \* parent is NULL here: parent->d_sb
                 [x EXCEPT !.w = [al.w EXCEPT !.fault = "oops_null_parent"],
                           !.dn = NoDentry, !.parent = NoDentry, !.brk = TRUE]))))

\* no_dir_mutex binding the provided dentry whether it is negative or not
trace_no_dir_mutex_rebind_mut(x, rinfo, a) ==
  LET provided == x.d = rinfo.trace_numd - 1 /\ x.w.req.r_last_dentry # NoDentry
      dn == IF provided THEN x.w.req.r_last_dentry ELSE NoDentry
      w0 == IF provided
            THEN [ceph_init_dentry(x.w, dn) EXCEPT !.req.r_last_dentry = NoDentry]
            ELSE x.w
  IN IF x.d + 1 = rinfo.trace_numi
     THEN [x EXCEPT !.w = IF dn # NoDentry /\ w0.dentries[dn].d_inode # 0
                          THEN d_delete(w0, dn) ELSE w0,
                    !.dn = dn, !.in = 0, !.brk = TRUE]
     ELSE
     Bind(world_get_inode(w0, rinfo.trace_in[x.d + 2].vino, a.inode_ok), LAMBDA g :
       IF g.in = 0
       THEN [x EXCEPT !.w = g.w, !.dn = dn, !.in = 0, !.err = -ENOMEM, !.brk = TRUE]
       ELSE Bind(d_find_alias(g.w, g.in), LAMBDA al :
         IF al.dn # NoDentry
         THEN trace_update_inode([x EXCEPT !.w = iput(dput(al.w, dn), g.in),
                                           !.dn = al.dn, !.in = g.in], rinfo, a)
         ELSE IF dn # NoDentry
         THEN trace_update_inode([x EXCEPT !.w = d_instantiate(g.w, dn, g.in),
                                           !.dn = dn, !.in = g.in], rinfo, a)
         ELSE Bind(d_alloc_anon(dput(g.w, dn), g.in, a.dentry_ok), LAMBDA an :
                trace_update_inode([x EXCEPT !.w = iput(an.w, g.in), !.dn = an.dn,
                                             !.in = g.in], rinfo, a))))

\* no_dir_mutex: the parent's i_mutex was not taken; no lookup, no relinking
trace_no_dir_mutex(x, rinfo, a) ==
  LET provided == x.d = rinfo.trace_numd - 1 /\ x.w.req.r_last_dentry # NoDentry
      dn == IF provided THEN x.w.req.r_last_dentry ELSE NoDentry
      w0 == IF provided
            THEN [ceph_init_dentry(x.w, dn) EXCEPT !.req.r_last_dentry = NoDentry]
            ELSE x.w
  IN IF x.d + 1 = rinfo.trace_numi
     THEN [x EXCEPT !.w = IF dn # NoDentry /\ w0.dentries[dn].d_inode # 0
                          THEN d_delete(w0, dn) ELSE w0,
                    !.dn = dn, !.in = 0, !.brk = TRUE]
     ELSE
     Bind(world_get_inode(w0, rinfo.trace_in[x.d + 2].vino, a.inode_ok), LAMBDA g :
       IF g.in = 0
       THEN [x EXCEPT !.w = g.w, !.dn = dn, !.in = 0, !.err = -ENOMEM, !.brk = TRUE]
       ELSE Bind(d_find_alias(g.w, g.in), LAMBDA al :
         IF al.dn # NoDentry
         THEN trace_update_inode([x EXCEPT !.w = iput(dput(al.w, dn), g.in),
                                           !.dn = al.dn, !.in = g.in], rinfo, a)
         ELSE IF dn # NoDentry /\ g.w.dentries[dn].d_inode = 0
         THEN trace_update_inode([x EXCEPT !.w = d_instantiate(g.w, dn, g.in),
                                           !.dn = dn, !.in = g.in], rinfo, a)
         ELSE Bind(d_alloc_anon(dput(g.w, dn), g.in, a.dentry_ok), LAMBDA an :
                trace_update_inode([x EXCEPT !.w = iput(an.w, g.in), !.dn = an.dn,
                                             !.in = g.in], rinfo, a))))

\* the stale dentry is let go without being deleted
trace_drop_stale_keep_mut(w, dn, d) == Note(dput(w, dn), << "retry", d >>)

\* a dentry bound to an inode the reply does not name there: d_delete, dput,
\* and the lookup is made again
trace_drop_stale(w, dn, d) == Note(dput(d_delete(w, dn), dn), << "retry", d >>)

\* retry_lookup at level x.d with the parent's i_mutex held: the dentry of
\* the name is found or made, deleted and looked up again while it is bound to
\* the wrong inode, bound to the reply's inode and leased
RECURSIVE trace_lookup(_, _, _, _, _, _)
trace_lookup(x, rinfo, s, a, have_lease, tries) ==
  LET d == x.d
      name == rinfo.trace_dname[d + 1]
      dlease == rinfo.trace_dlease[d + 1]
      rld == x.w.req.r_last_dentry
      lk == d_lookup(Note(x.w, << "lookup", d >>), x.parent, name)
      \* use the caller provided dentry?
      pv == IF d = rinfo.trace_numd - 1 /\ rld # NoDentry
            THEN IF lk.dn = NoDentry /\ x.w.dentries[rld].d_parent = x.parent
                 THEN [w |-> [ceph_init_dentry(lk.w, rld)
                                EXCEPT !.req.r_last_dentry = NoDentry],
                       dn |-> rld]
                 ELSE [w |-> [dput(lk.w, rld) EXCEPT !.req.r_last_dentry = NoDentry],
                       dn |-> lk.dn]
            ELSE lk
      al == IF pv.dn # NoDentry THEN pv
            ELSE Bind(d_alloc(pv.w, x.parent, name, a.dentry_ok), LAMBDA n :
                   IF n.dn = NoDentry THEN n
                   ELSE [w |-> ceph_init_dentry(n.w, n.dn), dn |-> n.dn])
  IN IF tries > MaxRetry THEN [x EXCEPT !.w.fault = "livelock", !.brk = TRUE]
     ELSE Bind(al, LAMBDA f :
       IF f.dn = NoDentry THEN trace_out_dir_no_inode(x, f.w, NoDentry, -ENOMEM)
       ELSE IF d + 1 = rinfo.trace_numi
       THEN \* null dentry
            IF f.w.dentries[f.dn].d_inode # 0
            THEN trace_lookup([x EXCEPT !.w = trace_drop_stale(f.w, f.dn, d)],
                              rinfo, s, a, have_lease, tries + 1)
            ELSE Bind(Note(d_instantiate(f.w, f.dn, 0), << "null", d >>), LAMBDA w1 :
                   trace_out_dir_no_inode(x,
                     update_dentry_lease(
                       IF have_lease /\ d_unhashed(w1, f.dn) THEN d_rehash(w1, f.dn)
                       ELSE w1,
                       f.dn, dlease, s, w1.req.r_request_started, a.di_ok),
                     f.dn, 0))
       ELSE
       \* rename?
       Bind(IF d = rinfo.trace_numd - 1 /\ f.w.req.r_old_dentry # NoDentry
            THEN [w |-> [dput(d_move(f.w, f.w.req.r_old_dentry, f.dn), f.dn)
                           EXCEPT !.req.r_old_dentry = NoDentry],
                  dn |-> f.w.req.r_old_dentry]
            ELSE f,
         LAMBDA m :
           LET vino == rinfo.trace_in[d + 2].vino
               cur == m.w.dentries[m.dn].d_inode
           IN IF cur # 0 /\ m.w.icache[cur].vino # vino
              THEN trace_lookup([x EXCEPT !.w = trace_drop_stale(m.w, m.dn, d)],
                                rinfo, s, a, have_lease, tries + 1)
              ELSE
              Bind(IF cur # 0
                   THEN [w |-> m.w, dn |-> m.dn, in |-> cur, prehash |-> have_lease]
                   ELSE Bind(world_get_inode(m.w, vino, a.inode_ok), LAMBDA g :
                          IF g.in = 0 THEN [w |-> m.w, dn |-> m.dn, in |-> 0,
                                            prehash |-> have_lease]
                          ELSE Bind(splice_dentry(g.w, m.dn, g.in, have_lease,
                                                  a.splice_ok),
                                 LAMBDA sp : [w |-> sp.w, dn |-> sp.dn, in |-> g.in,
                                              prehash |-> sp.prehash])),
                LAMBDA t :
                  IF t.in = 0
                  THEN trace_out_dir_no_inode(x, d_delete(t.w, t.dn), NoDentry, -ENOMEM)
                  ELSE trace_update_inode(
                         [x EXCEPT !.w = trace_unlock(
                                           IF t.prehash
                                           THEN update_dentry_lease(t.w, t.dn, dlease, s,
                                                  t.w.req.r_request_started, a.di_ok)
                                           ELSE t.w, x.pin),
                                   !.dn = t.dn, !.in = t.in],
                         rinfo, a))))

\* one pass of the loop over the dentries of the trace
trace_level(x, rinfo, s, a) ==
  LET parent == x.dn
      pin == x.w.dentries[parent].d_inode
      x0 == [x EXCEPT !.parent = parent, !.dn = NoDentry, !.pin = pin]
  IN IF x.w.req.r_locked_dir # pin /\ x.w.i_mutex[pin]
     THEN trace_no_dir_mutex(x0, rinfo, a)                    \* mutex_trylock failed
     ELSE Bind(world_update_inode_lease(
                 IF x.w.req.r_locked_dir # pin THEN Note(x.w, << "lock", pin >>) ELSE x.w,
                 x.in, rinfo.trace_ilease[x.d + 1], s),
            LAMBDA u :
              trace_lookup([x0 EXCEPT !.w = u.w], rinfo, s, a,
                           u.mask \cap CEPH_LOCK_ICONTENT # {}
                             \/ rinfo.trace_dlease[x.d + 1].mask \cap CEPH_LOCK_DN # {},
                           0))

RECURSIVE trace_loop(_, _, _, _)
trace_loop(x, rinfo, s, a) ==
  IF x.brk \/ x.d >= rinfo.trace_numd \/ x.w.fault # "none" THEN x
  ELSE trace_loop(trace_level(x, rinfo, s, a), rinfo, s, a)

\* the end of ceph_fill_trace: the last inode's lease, r_last_dentry and
\* r_last_inode
trace_done(x, rinfo, s) ==
  IF x.w.fault # "none" THEN [w |-> x.w, err |-> x.err]
  ELSE
  Bind(dput(x.w, x.parent), LAMBDA w1 :
    IF x.in # 0 /\ x.dn = NoDentry
    THEN [w |-> [w1 EXCEPT !.fault = "oops_null_dn"], err |-> x.err]
    ELSE Bind(IF x.in # 0
              THEN world_update_inode_lease(w1, w1.dentries[x.dn].d_inode,
                                            rinfo.trace_ilease[x.d + 1], s).w
              ELSE w1,
           LAMBDA w2 :
             Bind(dput(w2, w2.req.r_last_dentry), LAMBDA w3 :
               Bind(IF w3.req.r_last_inode # 0 THEN iput(w3, w3.req.r_last_inode) ELSE w3,
                 LAMBDA w4 :
                   [w |-> [(IF x.in # 0 THEN igrab(w4, x.in) ELSE w4)
                             EXCEPT !.req.r_last_dentry = x.dn,
                                    !.req.r_last_inode = x.in],
                    err |-> x.err]))))

\* ceph_fill_trace after the test for an empty trace: the root, the loop over
\* the dentries, the end
trace_walk(w, rinfo, s, a) ==
  LET vino == rinfo.trace_in[1].vino
      start(r) ==          \* r = [w, dn, in]: the root dentry and its inode
        Bind(IF vino.ino # 1 THEN [w |-> r.w, err |-> 0]
             ELSE world_fill_inode(r.w, r.in, rinfo.trace_in[1].info,
                                   IF rinfo.trace_numd # 0 THEN rinfo.trace_dir[1]
                                   ELSE None, a.fill),
          LAMBDA f :
            IF f.err < 0 \/ f.w.fault # "none" THEN f
            ELSE Bind(IF vino.ino # 1 THEN f.w
                      ELSE Bind(IF rinfo.trace_numd = 0
                                THEN world_update_inode_lease(f.w, r.in,
                                       rinfo.trace_ilease[1], s).w
                                ELSE f.w,
                             LAMBDA w1 : IF w1.s_root = NoDentry
                                         THEN [w1 EXCEPT !.s_root = r.dn] ELSE w1),
                   LAMBDA w2 :
                     trace_done(trace_loop([w |-> dget(w2, r.dn), dn |-> r.dn,
                                            in |-> r.in, parent |-> NoDentry, pin |-> 0,
                                            d |-> 0, err |-> 0, brk |-> FALSE],
                                           rinfo, s, a),
                                rinfo, s)))
  IN IF w.s_root # NoDentry
     THEN start([w |-> w, dn |-> w.s_root, in |-> w.dentries[w.s_root].d_inode])
     ELSE \* first reply (we just mounted)
          Bind(world_get_inode(w, vino, a.inode_ok), LAMBDA g :
            IF g.in = 0 THEN [w |-> w, err |-> -ENOMEM]
            ELSE Bind(d_alloc_root(g.w, g.in, a.dentry_ok), LAMBDA rt :
                   IF rt.dn = NoDentry THEN [w |-> rt.w, err |-> -ENOMEM]
                   ELSE start([w |-> rt.w, dn |-> rt.dn, in |-> g.in])))

\* a walk that stopped before its first dentry
NoWalk(w) == [w |-> w, dn |-> NoDentry, in |-> 0, parent |-> NoDentry, pin |-> 0,
              d |-> 0, err |-> 0, brk |-> TRUE]

\* ceph_fill_trace running its last lines (r_last_dentry, r_last_inode) on an
\* empty trace too
ceph_fill_trace_empty_mut(w, rinfo, s, a) ==
  IF rinfo.trace_numi = 0 THEN trace_done(NoWalk(w), rinfo, s)
  ELSE trace_walk(w, rinfo, s, a)

\* ceph_fill_trace(sb, req, session): the reply rinfo of request w.req from
\* session s is assimilated; a gives the outcome of each allocation
ceph_fill_trace(w, rinfo, s, a) ==
  IF rinfo.trace_numi = 0 THEN [w |-> w, err |-> 0]           \* empty trace
  ELSE trace_walk(w, rinfo, s, a)

\* --------------------------------------------------------- readdir prepopulate
\* one entry of a readdir reply at a time: retry_lookup, the inode, the leases
RECURSIVE readdir_entry(_, _, _, _, _, _)
readdir_entry(w, parent, e, s, a, tries) ==
  LET lk == d_lookup(Note(w, << "lookup", e.name >>), parent, e.name)
  IN IF tries > MaxRetry THEN [w |-> [w EXCEPT !.fault = "livelock"], err |-> 0, stop |-> TRUE]
     ELSE IF lk.dn # NoDentry /\ lk.w.dentries[lk.dn].d_inode # 0
             /\ lk.w.icache[lk.w.dentries[lk.dn].d_inode].vino # e.in.vino
     THEN readdir_entry(trace_drop_stale(lk.w, lk.dn, e.name), parent, e, s, a, tries + 1)
     ELSE
     Bind(IF lk.dn # NoDentry THEN lk
          ELSE Bind(d_alloc(lk.w, parent, e.name, a.dentry_ok), LAMBDA n :
                 IF n.dn = NoDentry THEN n
                 ELSE [w |-> ceph_init_dentry(n.w, n.dn), dn |-> n.dn]),
       LAMBDA f :
         IF f.dn = NoDentry THEN [w |-> f.w, err |-> -ENOMEM, stop |-> TRUE]
         ELSE
         Bind(IF f.w.dentries[f.dn].d_inode # 0
              THEN [w |-> f.w, dn |-> f.dn, in |-> f.w.dentries[f.dn].d_inode]
              ELSE Bind(world_get_inode(f.w, e.in.vino, a.inode_ok), LAMBDA g :
                     \* the test is in == NULL: an ERR_PTR is taken for an inode
                     IF g.in = 0
                     THEN [w |-> [g.w EXCEPT !.fault = "oops_err_ptr"], dn |-> f.dn,
                           in |-> 0]
                     ELSE Bind(splice_dentry(g.w, f.dn, g.in, TRUE, a.splice_ok),
                            LAMBDA sp : [w |-> sp.w, dn |-> sp.dn, in |-> g.in])),
           LAMBDA t :
             IF t.w.fault # "none" THEN [w |-> t.w, err |-> 0, stop |-> TRUE]
             ELSE Bind(world_fill_inode(t.w, t.in, e.in.info, None, a.fill), LAMBDA fi :
               IF fi.w.fault # "none" THEN [w |-> fi.w, err |-> 0, stop |-> TRUE]
               ELSE IF fi.err < 0 THEN [w |-> dput(fi.w, t.dn), err |-> 0, stop |-> FALSE]
               ELSE Bind(update_dentry_lease(fi.w, t.dn, e.dlease, s,
                                             fi.w.req.r_request_started, a.di_ok),
                      LAMBDA w1 :
                        IF w1.fault # "none" THEN [w |-> w1, err |-> 0, stop |-> TRUE]
                        ELSE [w |-> dput(world_update_inode_lease(w1, t.in, e.ilease, s).w,
                                         t.dn),
                              err |-> 0, stop |-> FALSE]))))

RECURSIVE readdir_loop(_, _, _, _, _, _)
readdir_loop(w, parent, entries, i, s, a) ==
  IF i > Len(entries) THEN [w |-> w, err |-> 0]
  ELSE Bind(readdir_entry(w, parent, entries[i], s, a, 0), LAMBDA r :
         IF r.stop THEN [w |-> r.w, err |-> r.err]
         ELSE readdir_loop(r.w, parent, entries, i + 1, s, a))

\* ceph_readdir_prepopulate(req): the entries of readdir reply rinfo go in
\* under the request's r_last_dentry, or under its snapdir for LSSNAP
ceph_readdir_prepopulate(w, rinfo, s, a) ==
  LET parent == w.req.r_last_dentry
      pin == w.dentries[parent].d_inode
  IN IF rinfo.lssnap
     THEN Bind(ceph_get_snapdir(w, pin, a.inode_ok), LAMBDA sd :
            IF sd.in = 0 THEN [w |-> [w EXCEPT !.fault = "oops_err_ptr"], err |-> 0]
            ELSE Bind(d_find_alias(sd.w, sd.in), LAMBDA al :
              IF al.dn = NoDentry /\ Len(rinfo.entries) > 0
              THEN [w |-> [al.w EXCEPT !.fault = "oops_null_parent"], err |-> 0]
              ELSE Bind(readdir_loop(al.w, al.dn, rinfo.entries, 1, s, a), LAMBDA r :
                     IF r.w.fault # "none" THEN r
                     ELSE [w |-> dput(iput(r.w, sd.in), al.dn), err |-> r.err])))
     ELSE readdir_loop(
            IF IsSome(rinfo.dir_dir)
            THEN [w EXCEPT !.i_fragtree[pin] =
                             ceph_fill_dirfrag(@, rinfo.dir_dir[1], a.fill.dir_ok)]
            ELSE w,
            parent, rinfo.entries, 1, s, a)

\* -------------------------------------------------------------------- xattrs
\* Bytes are naturals; a name is the sequence of its character codes.  A user
\* buffer is a sequence of bytes that starts out Untouched everywhere, so that
\* every byte an operation writes shows.
ENODATA == 61
ERANGE == 34
EIO == 5
EROFS == 30
EOPNOTSUPP == 95
ENOENT == 2

Untouched == -1
NUL == 0

\* a buffer of size bytes nobody wrote to
NewBuf(size) == [i \in 1 .. size |-> Untouched]

\* the bytes written at offset off (0-based) of buf; bytes past its end are lost
Poke(buf, off, bytes) ==
  [i \in 1 .. Len(buf) |->
     IF i > off /\ i <= off + Len(bytes) THEN bytes[i - off] ELSE buf[i]]

\* the indices of buf that were written
Written(buf) == { i \in 1 .. Len(buf) : buf[i] # Untouched }

\* the byte at 0-based address p of mem; memory further out reads as NUL
ByteAt(mem, p) == IF p + 1 <= Len(mem) THEN mem[p + 1] ELSE NUL

\* the n bytes at address p
ReadBytes(mem, p, n) == [i \in 1 .. n |-> ByteAt(mem, p + i - 1)]

\* a 32-bit little-endian integer as the MDS encodes it
ceph_encode_32(n) ==
  << n % 256, (n \div 256) % 256, (n \div 65536) % 256, (n \div 16777216) % 256 >>

\* ceph_decode_32(&p, v): the value at p
ceph_decode_32(mem, p) ==
  ByteAt(mem, p) + 256 * ByteAt(mem, p + 1) + 65536 * ByteAt(mem, p + 2)
    + 16777216 * ByteAt(mem, p + 3)

\* ceph_decode_32_safe(&p, end, v, bad): the four bytes lie before end
ceph_decode_need(p, end, n) == p + n <= end

\* "%lld" of a non-negative number: its decimal digits
RECURSIVE Decimal(_)
Decimal(n) == IF n < 10 THEN << 48 + n >> ELSE Decimal(n \div 10) \o << 48 + (n % 10) >>

\* snprintf(val, size, ...) of the formatted string str: at most size - 1
\* characters and a NUL are written, the full length is returned
snprintf(val, size, str) ==
  [ret |-> Len(str),
   buf |-> IF size = 0 THEN val
           ELSE Poke(val, 0, SubSeq(str, 1, Min(Len(str), size - 1)) \o << NUL >>)]

\* the prefix of names that can be set: "user."
UserPrefix == << 117, 115, 101, 114, 46 >>

\* "user.ceph.dir." followed by the characters of tail
VirName(tail) == UserPrefix \o << 99, 101, 112, 104, 46, 100, 105, 114, 46 >> \o tail

\* _ceph_vir_xattr_recs: entries, files, subdirs, rentries, rfiles, rsubdirs,
\* rbytes, rctime
_ceph_vir_xattr_recs ==
  << [name |-> VirName(<< 101, 110, 116, 114, 105, 101, 115 >>), cb |-> "entries"],
     [name |-> VirName(<< 102, 105, 108, 101, 115 >>), cb |-> "files"],
     [name |-> VirName(<< 115, 117, 98, 100, 105, 114, 115 >>), cb |-> "subdirs"],
     [name |-> VirName(<< 114, 101, 110, 116, 114, 105, 101, 115 >>), cb |-> "rentries"],
     [name |-> VirName(<< 114, 102, 105, 108, 101, 115 >>), cb |-> "rfiles"],
     [name |-> VirName(<< 114, 115, 117, 98, 100, 105, 114, 115 >>), cb |-> "rsubdirs"],
     [name |-> VirName(<< 114, 98, 121, 116, 101, 115 >>), cb |-> "rbytes"],
     [name |-> VirName(<< 114, 99, 116, 105, 109, 101 >>), cb |-> "rctime"] >>

\* the string the callback cb formats from the cached directory statistics;
\* rsubdirs prints i_subdirs, rctime prints "sec.nsec" with nsec 0 here
_ceph_vir_xattrcb(c, cb) ==
  CASE cb = "entries" -> Decimal(c.i_files + c.i_subdirs)
    [] cb = "files" -> Decimal(c.i_files)
    [] cb = "subdirs" -> Decimal(c.i_subdirs)
    [] cb = "rentries" -> Decimal(c.i_rfiles + c.i_rsubdirs)
    [] cb = "rfiles" -> Decimal(c.i_rfiles)
    [] cb = "rsubdirs" -> Decimal(c.i_subdirs)
    [] cb = "rbytes" -> Decimal(c.i_rbytes)
    [] cb = "rctime" -> Decimal(c.i_rctime) \o << 46 >> \o Decimal(0)

\* _ceph_match_vir_xattr(name): the index of the record, 0 for NULL
_ceph_match_vir_xattr(name) ==
  LET hits == { i \in 1 .. Len(_ceph_vir_xattr_recs) : _ceph_vir_xattr_recs[i].name = name }
  IN IF hits = {} THEN 0 ELSE LowestOf(hits)

\* ceph_do_getattr(dentry, mask): nothing to do for the snapdir or under a
\* valid lease (lv); otherwise the outcome of the lookup at the MDS
ceph_do_getattr(snap, lv, lookup_err) ==
  IF snap = CEPH_SNAPDIR THEN 0
  ELSE IF lv THEN 0
  ELSE lookup_err

\* the cached blob with the memory that follows it in the heap
XattrMem(c, beyond) ==
  (IF IsSome(c.i_xattr_data) THEN c.i_xattr_data[1] ELSE << >>) \o beyond

\* strncmp(name, p, len) for len == namelen: whether it is 0, and whether it
\* read a byte at or past end before it could stop
xattr_strncmp(mem, end, p, name) ==
  LET diff == { j \in 1 .. Len(name) : ByteAt(mem, p + j - 1) # name[j] }
      nread == IF diff = {} THEN Len(name) ELSE LowestOf(diff)
  IN [match |-> diff = {}, over |-> p + nread > end]

\* ceph_getxattr, the scan of the blob from entry position p with numattr
\* entries to go.  over: bytes past the end of the blob were read
RECURSIVE xattr_find(_, _, _, _, _, _, _, _)
xattr_find(mem, end, p, numattr, name, size, buf, over) ==
  IF numattr = 0 THEN [ret |-> -ENODATA, buf |-> buf, over |-> over]
  ELSE IF ~ceph_decode_need(p, end, 4) THEN [ret |-> -EIO, buf |-> buf, over |-> over]
  ELSE LET len == ceph_decode_32(mem, p)
           cmp == IF len = Len(name) THEN xattr_strncmp(mem, end, p + 4, name)
                  ELSE [match |-> FALSE, over |-> FALSE]
           p2 == p + 4 + len
       IN IF ~ceph_decode_need(p2, end, 4)
          THEN [ret |-> -EIO, buf |-> buf, over |-> over \/ cmp.over]
          ELSE LET vlen == ceph_decode_32(mem, p2)
                   p3 == p2 + 4
               IN IF cmp.match
                  THEN IF size # 0 /\ size < vlen
                       THEN [ret |-> -ERANGE, buf |-> buf, over |-> over \/ cmp.over]
                       ELSE IF size = 0
                       THEN [ret |-> vlen, buf |-> buf, over |-> over \/ cmp.over]
                       ELSE \* memcpy(value, p, len), whatever end is
                            [ret |-> vlen, buf |-> Poke(buf, 0, ReadBytes(mem, p3, vlen)),
                             over |-> over \/ cmp.over \/ p3 + vlen > end]
                  ELSE xattr_find(mem, end, p3 + vlen, numattr - 1, name, size, buf,
                                  over \/ cmp.over)

\* ceph_getxattr(dentry, name, value, size) on an inode with fields c.
\* getattr_err is what ceph_do_getattr returned, buf the caller's buffer of
\* size bytes, beyond the heap memory behind the blob
ceph_getxattr(c, getattr_err, name, size, buf, beyond) ==
  LET vir == _ceph_match_vir_xattr(name)
      quiet(ret) == [ret |-> ret, buf |-> buf, over |-> FALSE]
  IN IF vir # 0
     THEN \* a virtual xattr was requested
          Bind(snprintf(buf, size, _ceph_vir_xattrcb(c, _ceph_vir_xattr_recs[vir].cb)),
               LAMBDA r : [ret |-> r.ret, buf |-> r.buf, over |-> FALSE])
     ELSE IF getattr_err # 0 THEN quiet(getattr_err)
     ELSE IF c.i_xattr_len = 0 THEN quiet(-ENODATA)
     ELSE IF ~ceph_decode_need(0, c.i_xattr_len, 4) THEN quiet(-EIO)
     ELSE xattr_find(XattrMem(c, beyond), c.i_xattr_len, 4,
                     ceph_decode_32(XattrMem(c, beyond), 0), name, size, buf, FALSE)

\* ceph_listxattr, "measure len of names": the sum of len + 1 over the names
\* from entry position p on, or -1 when a length field is cut off
RECURSIVE list_measure(_, _, _, _, _)
list_measure(mem, end, p, numattr, namelen) ==
  IF numattr = 0 THEN namelen
  ELSE IF ~ceph_decode_need(p, end, 4) THEN -1
  ELSE LET len == ceph_decode_32(mem, p)
           p2 == p + 4 + len
       IN IF ~ceph_decode_need(p2, end, 4) THEN -1
          ELSE list_measure(mem, end, p2 + 4 + ceph_decode_32(mem, p2), numattr - 1,
                            namelen + len + 1)

\* ceph_listxattr, "copy names": each name and a NUL, from offset off of names
RECURSIVE list_copy(_, _, _, _, _)
list_copy(mem, p, numattr, names, off) ==
  IF numattr = 0 THEN [buf |-> names, off |-> off]
  ELSE LET len == ceph_decode_32(mem, p)
           p2 == p + 4 + len
       IN list_copy(mem, p2 + 4 + ceph_decode_32(mem, p2), numattr - 1,
                    Poke(names, off, ReadBytes(mem, p + 4, len) \o << NUL >>),
                    off + len + 1)

\* ceph_listxattr, "virtual xattr names, too": record i and those after it
RECURSIVE list_vir(_, _, _)
list_vir(i, names, off) ==
  IF i > Len(_ceph_vir_xattr_recs) THEN names
  ELSE list_vir(i + 1, Poke(names, off, _ceph_vir_xattr_recs[i].name \o << NUL >>),
                off + Len(_ceph_vir_xattr_recs[i].name) + 1)

\* the bytes the virtual names from record i on take in a listing
RECURSIVE vir_names_len(_)
vir_names_len(i) ==
  IF i > Len(_ceph_vir_xattr_recs) THEN 0
  ELSE Len(_ceph_vir_xattr_recs[i].name) + 1 + vir_names_len(i + 1)

VirNamesLen == vir_names_len(1)

\* ceph_listxattr measuring an inode without a blob without the virtual names
ceph_listxattr_measure_mut(c, getattr_err, size, names) ==
  LET mem == XattrMem(c, << >>)
      end == c.i_xattr_len
      real == IF end = 0 THEN 0
              ELSE IF ~ceph_decode_need(0, end, 4) THEN -1
              ELSE list_measure(mem, end, 4, ceph_decode_32(mem, 0), 0)
      namelen == real + (IF c.i_mode = S_IFDIR /\ (end # 0 \/ size # 0)
                         THEN VirNamesLen ELSE 0)
      copied == IF end # 0
                THEN list_copy(mem, 4, ceph_decode_32(mem, 0), names, 0)
                ELSE [buf |-> Poke(names, 0, << NUL >>), off |-> 0]   \* names[0] = 0
  IN IF getattr_err # 0 THEN [ret |-> getattr_err, buf |-> names]
     ELSE IF real < 0 THEN [ret |-> -EIO, buf |-> names]
     ELSE IF size # 0 /\ namelen > size THEN [ret |-> -ERANGE, buf |-> names]
     ELSE IF size = 0 THEN [ret |-> namelen, buf |-> names]
     ELSE [ret |-> namelen,
           buf |-> IF c.i_mode = S_IFDIR THEN list_vir(1, copied.buf, copied.off)
                   ELSE copied.buf]

\* ceph_listxattr that lists the virtual names for every file type
ceph_listxattr_anyvir_mut(c, getattr_err, size, names) ==
  LET mem == XattrMem(c, << >>)
      end == c.i_xattr_len
      real == IF end = 0 THEN 0
              ELSE IF ~ceph_decode_need(0, end, 4) THEN -1
              ELSE list_measure(mem, end, 4, ceph_decode_32(mem, 0), 0)
      namelen == real + VirNamesLen
      copied == IF end # 0
                THEN list_copy(mem, 4, ceph_decode_32(mem, 0), names, 0)
                ELSE [buf |-> Poke(names, 0, << NUL >>), off |-> 0]
  IN IF getattr_err # 0 THEN [ret |-> getattr_err, buf |-> names]
     ELSE IF real < 0 THEN [ret |-> -EIO, buf |-> names]
     ELSE IF size # 0 /\ namelen > size THEN [ret |-> -ERANGE, buf |-> names]
     ELSE IF size = 0 THEN [ret |-> namelen, buf |-> names]
     ELSE [ret |-> namelen, buf |-> list_vir(1, copied.buf, copied.off)]

\* ceph_listxattr(dentry, names, size) on an inode with fields c; names is
\* the caller's buffer of size bytes
ceph_listxattr(c, getattr_err, size, names) ==
  LET mem == XattrMem(c, << >>)
      end == c.i_xattr_len
      real == IF end = 0 THEN 0
              ELSE IF ~ceph_decode_need(0, end, 4) THEN -1
              ELSE list_measure(mem, end, 4, ceph_decode_32(mem, 0), 0)
      \* include virtual dir xattrs
      namelen == real + (IF c.i_mode = S_IFDIR THEN VirNamesLen ELSE 0)
      copied == IF end # 0
                THEN list_copy(mem, 4, ceph_decode_32(mem, 0), names, 0)
                ELSE [buf |-> Poke(names, 0, << NUL >>), off |-> 0]   \* names[0] = 0
  IN IF getattr_err # 0 THEN [ret |-> getattr_err, buf |-> names]
     ELSE IF real < 0 THEN [ret |-> -EIO, buf |-> names]
     ELSE IF size # 0 /\ namelen > size THEN [ret |-> -ERANGE, buf |-> names]
     ELSE IF size = 0 THEN [ret |-> namelen, buf |-> names]
     ELSE [ret |-> namelen,
           buf |-> IF c.i_mode = S_IFDIR THEN list_vir(1, copied.buf, copied.off)
                   ELSE copied.buf]

\* ------------------------------------------------- setattr, setxattr, removexattr
\* These work on the state st of the mount an operation can change: the inode
\* fields ci, the lease slots with their references and session lists, and
\* ev, the trail of what went out: << "vmtruncate", to >> for pages truncated,
\* << "release", in, mask >> for a lease handed back, << "request", op >> for an
\* MDS request dispatched, << "pages", n >> and << "free", n >> for pages
\* allocated and freed.
CEPH_LOCK_IXATTR == {"IXATTR"}
PAGE_CACHE_SIZE == 4096

\* every step of building and running a request succeeds
ReqOk == [change_err |-> 0, path_ok |-> TRUE, req_ok |-> TRUE, mds_err |-> 0,
          vm_ok |-> TRUE, pages_ok |-> TRUE, page_fail |-> 0]

SayEv(st, e) == [st EXCEPT !.ev = Append(@, e)]

\* __ceph_do_pending_vmtruncate(inode)
__ceph_do_pending_vmtruncate(st, in) ==
  LET to == st.ci[in].i_vmtruncate_to
  IN IF to >= 0
     THEN SayEv([st EXCEPT !.ci[in].i_vmtruncate_to = -1], << "vmtruncate", to >>)
     ELSE st

\* prepare_setattr: FALSE when the path or the request cannot be allocated
prepare_setattr(ia_valid, a) ==
  IF "FILE" \in ia_valid THEN a.req_ok ELSE a.path_ok /\ a.req_ok

\* the tail every setattr helper shares: the lease on mask is released, the
\* request op is dispatched, and the MDS answers a.mds_err
setattr_request(st, in, mask, op, a) ==
  LET rel == ceph_mdsc_lease_release(st.ilease, st.i_count, st.sessions, in, mask)
  IN [st |-> SayEv(SayEv([st EXCEPT !.ilease = rel.ilease, !.i_count = rel.i_count,
                                    !.sessions = rel.sessions],
                         << "release", in, mask >>),
                   << "request", op >>),
      err |-> a.mds_err]

\* ceph_setattr_chown and ceph_setattr_chmod
ceph_setattr_chown(st, in, attr, a) ==
  IF ~prepare_setattr(attr.ia_valid, a) THEN [st |-> st, err |-> -ENOMEM]
  ELSE setattr_request(st, in, CEPH_LOCK_IAUTH, "CHOWN", a)

ceph_setattr_chmod(st, in, attr, a) ==
  IF ~prepare_setattr(attr.ia_valid, a) THEN [st |-> st, err |-> -ENOMEM]
  ELSE setattr_request(st, in, CEPH_LOCK_IAUTH, "LCHMOD", a)

\* ceph_setattr_time and ceph_setattr_size with their request halves; a failed
\* vmtruncate is reported as -EIO
setattr_time(st, in, iss, attr, now, jif, a) ==
  LET lv == ceph_inode_lease_valid(st.ilease[in], st.sessions, iss, jif, CEPH_LOCK_ICONTENT)
      u == ceph_setattr_time(st.ci[in], iss, lv, attr, now)
  IN IF u.res # "request" THEN [st |-> [st EXCEPT !.ci[in] = u.c], err |-> 0]
     ELSE IF ~prepare_setattr(attr.ia_valid, a) THEN [st |-> st, err |-> -ENOMEM]
     ELSE setattr_request(st, in, CEPH_LOCK_ICONTENT, "LUTIME", a)

setattr_size(st, in, iss, attr, jif, a) ==
  LET lv == ceph_inode_lease_valid(st.ilease[in], st.sessions, iss, jif, CEPH_LOCK_ICONTENT)
      u == ceph_setattr_size(st.ci[in], iss, lv, attr.ia_size, attr.ia_ctime, a.vm_ok)
  IN IF u.res = "error" THEN [st |-> st, err |-> -EIO]
     ELSE IF u.res # "request" THEN [st |-> [st EXCEPT !.ci[in] = u.c], err |-> 0]
     ELSE IF ~prepare_setattr(attr.ia_valid, a) THEN [st |-> st, err |-> -ENOMEM]
     ELSE Bind(setattr_request(st, in, CEPH_LOCK_ICONTENT, "LTRUNCATE", a), LAMBDA r :
            [st |-> __ceph_do_pending_vmtruncate(r.st, in), err |-> r.err])

\* ceph_setattr with the pending truncate applied before the snapshot test
ceph_setattr_late_mut(st, in, snap, iss, attr, now, jif, a) ==
  IF snap # CEPH_NOSNAP
  THEN [st |-> __ceph_do_pending_vmtruncate(st, in), err |-> -EROFS]
  ELSE [st |-> __ceph_do_pending_vmtruncate(st, in), err |-> a.change_err]

\* ceph_setattr(dentry, attr) on inode in with snap id snap and issued caps
\* iss; now is CURRENT_TIME and jif the tick counter
ceph_setattr(st, in, snap, iss, attr, now, jif, a) ==
  IF snap # CEPH_NOSNAP THEN [st |-> st, err |-> -EROFS]
  ELSE Bind(__ceph_do_pending_vmtruncate(st, in), LAMBDA s0 :
    IF a.change_err # 0 THEN [st |-> s0, err |-> a.change_err]     \* inode_change_ok
    ELSE
    Bind(IF attr.ia_valid \cap {"UID", "GID"} # {}
         THEN ceph_setattr_chown(s0, in, attr, a) ELSE [st |-> s0, err |-> 0],
         LAMBDA r1 :
    Bind(IF "MODE" \in attr.ia_valid
         THEN ceph_setattr_chmod(r1.st, in, attr, a) ELSE r1,
         LAMBDA r2 :
    Bind(IF attr.ia_valid \cap {ATTR_ATIME, ATTR_MTIME} # {}
         THEN setattr_time(r2.st, in, iss, attr, now, jif, a) ELSE r2,
         LAMBDA r3 :
           IF "SIZE" \in attr.ia_valid
           THEN setattr_size(r3.st, in, iss, attr, jif, a) ELSE r3))))

\* calc_pages_for(0, size)
calc_pages_for(size) == (size + PAGE_CACHE_SIZE - 1) \div PAGE_CACHE_SIZE

\* strncmp(name, "user.", 5) != 0
NotUserName(name) == Len(name) < 5 \/ SubSeq(name, 1, 5) # UserPrefix

\* ceph_setxattr that dispatches the request before it releases the lease
ceph_setxattr_late_mut(st, in, snap, name, size, a) ==
  IF snap # CEPH_NOSNAP THEN [st |-> st, err |-> -EROFS]
  ELSE IF NotUserName(name) THEN [st |-> st, err |-> -EOPNOTSUPP]
  ELSE IF _ceph_match_vir_xattr(name) # 0 THEN [st |-> st, err |-> -EOPNOTSUPP]
  ELSE LET rel == ceph_mdsc_lease_release(st.ilease, st.i_count, st.sessions, in,
                                          CEPH_LOCK_IXATTR)
       IN [st |-> SayEv(SayEv([st EXCEPT !.ilease = rel.ilease, !.i_count = rel.i_count,
                                         !.sessions = rel.sessions],
                              << "request", "LSETXATTR" >>),
                        << "release", in, CEPH_LOCK_IXATTR >>),
           err |-> a.mds_err]

\* ceph_setxattr(dentry, name, value, size, flags)
ceph_setxattr(st, in, snap, name, size, a) ==
  LET nr_pages == calc_pages_for(size)
      got == IF a.page_fail = 0 \/ a.page_fail > nr_pages THEN nr_pages
             ELSE a.page_fail - 1
      paged == IF nr_pages = 0 THEN st ELSE SayEv(st, << "pages", got >>)
      freed(s) == IF nr_pages = 0 THEN s ELSE SayEv(s, << "free", got >>)
  IN IF snap # CEPH_NOSNAP THEN [st |-> st, err |-> -EROFS]
     \* only support user.* xattrs, for now
     ELSE IF NotUserName(name) THEN [st |-> st, err |-> -EOPNOTSUPP]
     ELSE IF _ceph_match_vir_xattr(name) # 0 THEN [st |-> st, err |-> -EOPNOTSUPP]
     ELSE IF nr_pages # 0 /\ ~a.pages_ok THEN [st |-> st, err |-> -ENOMEM]
     ELSE IF got < nr_pages THEN [st |-> freed(paged), err |-> -ENOMEM]
     \* ceph_build_path and ceph_mdsc_create_request return with the pages held
     ELSE IF ~a.path_ok \/ ~a.req_ok THEN [st |-> paged, err |-> -ENOMEM]
     ELSE Bind(setattr_request(paged, in, CEPH_LOCK_IXATTR, "LSETXATTR", a), LAMBDA r :
            [st |-> freed(r.st), err |-> r.err])

\* ceph_removexattr(dentry, name)
ceph_removexattr(st, in, snap, name, a) ==
  IF snap # CEPH_NOSNAP THEN [st |-> st, err |-> -EROFS]
  ELSE IF NotUserName(name) THEN [st |-> st, err |-> -EOPNOTSUPP]
  ELSE IF _ceph_match_vir_xattr(name) # 0 THEN [st |-> st, err |-> -EOPNOTSUPP]
  ELSE IF ~a.path_ok \/ ~a.req_ok THEN [st |-> st, err |-> -ENOMEM]
  ELSE setattr_request(st, in, CEPH_LOCK_IXATTR, "LRMXATTR", a)

\* ------------------------------------------------------------------- inputs
Seqs == 0 .. MaxSeq
Times == 0 .. MaxTime

\* an MDS inode reply (struct ceph_mds_reply_info_in) of a regular file with
\* nothing set
BaseReply ==
  [ version |-> 0, mode |-> S_IFREG, uid |-> 0, gid |-> 0, nlink |-> 1, rdev |-> 0,
    layout |-> 4096, truncate_seq |-> 0, time_warp_seq |-> 0, size |-> 0,
    max_size |-> 0, mtime |-> 0, atime |-> 0, ctime |-> 0, rctime |-> 0,
    files |-> 0, subdirs |-> 0, rfiles |-> 0, rsubdirs |-> 0, rbytes |-> 0,
    splits |-> << >>, symlink |-> << >>, symlink_len |-> 0,
    xattr_len |-> 0, xattr_data |-> << >> ]

\* every allocation of a ceph_fill_inode call succeeds
AllocOk == [xattr_ok |-> TRUE, frag_fail |-> {}, dir_ok |-> TRUE, sym_ok |-> TRUE]

\* the timestamp triples (ctime, mtime, atime) of a reply: all three equal, or
\* one of them apart from the other two at 0 (the reconciler treats each alone)
TimeTriples ==
  { << t, t, t >> : t \in Times } \cup { << t, 0, 0 >> : t \in Times }
  \cup { << 0, t, 0 >> : t \in Times } \cup { << 0, 0, t >> : t \in Times }

\* replies that vary what the attribute reconciler reads: the timestamps with
\* the time_warp_seq, and the two sequence numbers with the size
TimeReplies ==
  { [BaseReply EXCEPT !.time_warp_seq = tw, !.ctime = tt[1], !.mtime = tt[2],
                      !.atime = tt[3]] : tw \in Seqs, tt \in TimeTriples }
  \cup { [BaseReply EXCEPT !.truncate_seq = ts, !.size = sz, !.time_warp_seq = tw] :
           ts \in Seqs, sz \in {0, 1}, tw \in Seqs }

\* replies that vary what the size half of the reconciler reads
SizeVals == {0, 1, 512, 513}
SizeReplies ==
  { [BaseReply EXCEPT !.truncate_seq = ts, !.size = sz] : ts \in Seqs, sz \in SizeVals }

\* utimes arguments (a field ia_valid leaves out is not read and stays 0)
UtimeAttrs ==
  { [ia_valid |-> {ATTR_ATIME}, ia_atime |-> at, ia_mtime |-> 0] : at \in Times }
  \cup { [ia_valid |-> {ATTR_MTIME}, ia_atime |-> 0, ia_mtime |-> mt] : mt \in Times }
  \cup { [ia_valid |-> {ATTR_ATIME, ATTR_MTIME}, ia_atime |-> t, ia_mtime |-> t] :
           t \in Times }

\* the frags an MDS names in splits and dirfrag info: the root, its child 1 and
\* that child's child 3, a chain a descent can follow
FragIds == { frag_make(0, 0), frag_make(1, 1), frag_make(2, 3) }

\* the largest split_by an MDS sends
MaxBy == 2

\* replies about a directory that carry fragment-tree splits
FragReplies ==
  { [BaseReply EXCEPT !.version = 1, !.mode = S_IFDIR,
                      !.splits = << [frag |-> f, by |-> b] >>] :
      f \in FragIds, b \in 0 .. MaxBy }
  \cup { [BaseReply EXCEPT !.version = 1, !.mode = S_IFDIR,
                          !.splits = << [frag |-> frag_make(0, 0), by |-> 1],
                                        [frag |-> frag_make(1, 1), by |-> 1] >>] }

\* a reply about a directory without splits, sent along with dirfrag info
DirReply == [BaseReply EXCEPT !.version = 1, !.mode = S_IFDIR]

\* dirfrag (delegation) info: no delegation, an authority, and more replicas
\* than a node keeps
DirInfos ==
  { [frag |-> f, auth |-> d[1], ndist |-> d[2], dist |-> [k \in 1 .. d[2] |-> k]] :
      f \in FragIds,
      d \in { << -1, 0 >>, << 0, 0 >>, << -1, MAX_DIRFRAG_REP + 1 >> } }

\* the hash values a caller looks up
HashVals == {0, 1, 3, 7}

\* session generations and clock ticks considered
MaxGen == 1
MaxJiffies == 1

\* leases an MDS grants (struct ceph_mds_reply_lease): 4 ms is one tick
Leases ==
  { [mask |-> m, duration_ms |-> d] :
      m \in { {}, CEPH_LOCK_IAUTH, {"IFILE"} }, d \in {0, 4} }

\* the masks callers of ceph_inode_lease_valid ask about
QueryMasks == { {}, CEPH_LOCK_IAUTH, {"IFILE"}, CEPH_LOCK_ICONTENT,
                CEPH_LOCK_IAUTH \cup CEPH_LOCK_ICONTENT }

\* reply versions: none (0) and one; the inode may have cached 0, 1 or 2
Versions == {0, 1}

\* file types of a reply; "NONE" is a type ceph_fill_inode does not know
Modes == {S_IFREG, S_IFDIR, S_IFLNK, S_IFIFO, "NONE"}

\* a reply of type m; a symlink reply carries a one-byte target and that size
TypedReply(v, m) ==
  IF m = S_IFLNK
  THEN [BaseReply EXCEPT !.version = v, !.mode = m, !.size = 1, !.symlink_len = 1,
                         !.symlink = << "a" >>]
  ELSE [BaseReply EXCEPT !.version = v, !.mode = m]

\* replies that vary, one at a time, what ceph_fill_inode reads: the file type,
\* the xattr blob, truncate_seq and size of a directory with its rbytes, the
\* time_warp_seq and the times, the splits, and a symlink whose target length
\* is not its size
FillReplies ==
  { TypedReply(v, m) : v \in Versions, m \in Modes }
  \cup { [BaseReply EXCEPT !.version = v, !.xattr_len = n,
                          !.xattr_data = [k \in 1 .. n |-> "x"]] :
           v \in Versions, n \in {1, 2} }
  \cup { [BaseReply EXCEPT !.version = v, !.mode = S_IFDIR, !.truncate_seq = x[1],
                          !.size = x[2], !.rbytes = x[3], !.subdirs = x[3]] :
           v \in Versions, x \in { << 0, 1, 0 >>, << 1, 0, 0 >>, << 1, 2, 1 >> } }
  \cup { [BaseReply EXCEPT !.version = v, !.time_warp_seq = tw, !.ctime = 1,
                          !.mtime = 1, !.atime = 1] : v \in Versions, tw \in Seqs }
  \cup { [BaseReply EXCEPT !.version = v, !.mode = S_IFDIR,
                          !.splits = << [frag |-> frag_make(0, 0), by |-> b] >>] :
           v \in Versions, b \in {0, 1} }
  \cup { [TypedReply(1, S_IFLNK) EXCEPT !.size = 0] }

\* every allocation of a ceph_fill_inode call fails
AllocFail == [xattr_ok |-> FALSE, frag_fail |-> {1}, dir_ok |-> FALSE, sym_ok |-> FALSE]

\* dirfrag info about the root frag: an authority with a replica, and none
RootDirInfos ==
  { [frag |-> frag_make(0, 0), auth |-> 0, ndist |-> 1, dist |-> << 1 >>],
    [frag |-> frag_make(0, 0), auth |-> -1, ndist |-> 0, dist |-> << >>] }

\* the replies whose processing allocates: an xattr buffer, a symlink target,
\* a fragment node
AllocReplies ==
  { r \in FillReplies : r.xattr_len > 0 \/ r.mode = S_IFLNK \/ r.splits # << >> }

\* ceph_fill_inode calls << reply, dirfrag info, allocation outcomes >>
FillCalls ==
  { << r, None, AllocOk >> : r \in FillReplies }
  \cup { << r, None, AllocFail >> : r \in AllocReplies }
  \cup { << [BaseReply EXCEPT !.version = v, !.mode = S_IFDIR], Some(d), a >> :
           v \in Versions, d \in RootDirInfos, a \in {AllocOk, AllocFail} }

\* the calls that happen to the inode: a file, a directory, a symlink (once
\* without memory for its target), an xattr blob, a truncation, a split, a
\* delegation
SomeFillCalls ==
  { << TypedReply(1, S_IFREG), None, AllocOk >>,
    << TypedReply(2, S_IFDIR), None, AllocOk >>,
    << TypedReply(1, S_IFLNK), None, AllocOk >>,
    << TypedReply(1, S_IFLNK), None, AllocFail >>,
    << [BaseReply EXCEPT !.version = 2, !.xattr_len = 1, !.xattr_data = << "x" >>],
       None, AllocOk >>,
    << [BaseReply EXCEPT !.version = 1, !.mode = S_IFDIR, !.truncate_seq = 1,
                         !.size = 2, !.rbytes = 1, !.subdirs = 1], None, AllocOk >>,
    << [BaseReply EXCEPT !.version = 0, !.mode = S_IFDIR,
                         !.splits = << [frag |-> frag_make(0, 0), by |-> 1] >>],
       None, AllocOk >> }
  \cup { << [BaseReply EXCEPT !.version = 1, !.mode = S_IFDIR], Some(d), AllocOk >> :
           d \in { x \in RootDirInfos : x.auth >= 0 } }

\* ------------------------------------------------- cls_rgw: bucket directory
\* The object of a bucket holds the encoded rgw_bucket_dir: the header and the
\* map from name to entry.  A request carries op, epoch and an encoded entry.
CLS_RGW_OP_ADD == 0
CLS_RGW_OP_DEL == 1
EINVAL == 22

\* rgw_bucket_dir_entry::encode: struct_v, name, mtime, epoch; size is not sent
rgw_bucket_dir_entry_encode(e) ==
  [struct_v |-> 1, name |-> e.name, mtime |-> e.mtime, epoch |-> e.epoch]

\* rgw_bucket_dir_entry::decode into a new struct: size is not assigned and
\* holds junk, whatever the memory held
rgw_bucket_dir_entry_decode(bl, junk) ==
  [name |-> bl.name, size |-> junk, mtime |-> bl.mtime, epoch |-> bl.epoch]

\* rgw_bucket_dir::encode and ::decode
rgw_bucket_dir_encode(dir) ==
  [struct_v |-> 1, header |-> dir.header,
   m |-> [n \in DOMAIN dir.m |-> rgw_bucket_dir_entry_encode(dir.m[n])]]
rgw_bucket_dir_decode(bl, junk) ==
  [header |-> bl.header,
   m |-> [n \in DOMAIN bl.m |-> rgw_bucket_dir_entry_decode(bl.m[n], junk)]]

\* the object of a bucket without entries
NoBucketDir ==
  rgw_bucket_dir_encode([header |-> [total_size |-> 0, num_entries |-> 0],
                         m |-> [n \in {} |-> 0]])

\* write_bucket_dir: the directory is encoded and written in full; rc is what
\* cls_cxx_write_full answers
write_bucket_dir(obj, dir, rc) ==
  [ret |-> rc, obj |-> IF rc < 0 THEN obj ELSE rgw_bucket_dir_encode(dir)]

\* rgw_bucket_modify(hctx, in, out) on the stored object obj; in = [ok, op,
\* epoch, entry] is the request (ok: it decodes), io = [read_rc, write_rc,
\* junk] what reading and writing the object answer
rgw_bucket_modify(obj, in, io) ==
  IF io.read_rc < 0 THEN [ret |-> io.read_rc, obj |-> obj]
  ELSE IF ~in.ok THEN [ret |-> -EINVAL, obj |-> obj]
  ELSE LET dir == rgw_bucket_dir_decode(obj, io.junk)
           entry == rgw_bucket_dir_entry_decode(in.entry, io.junk)
           found == entry.name \in DOMAIN dir.m
       IN \* the epoch compared is that of the entry in the request
          IF found /\ entry.epoch >= in.epoch THEN [ret |-> 0, obj |-> obj]
          ELSE IF in.op = CLS_RGW_OP_DEL
          THEN IF found
               THEN write_bucket_dir(obj, [dir EXCEPT !.m = [n \in DOMAIN dir.m \ {entry.name}
                                                              |-> dir.m[n]]],
                                     io.write_rc)
               ELSE [ret |-> -ENOENT, obj |-> obj]
          ELSE IF in.op = CLS_RGW_OP_ADD
          THEN write_bucket_dir(obj, [dir EXCEPT !.m = [n \in DOMAIN dir.m \cup {entry.name}
                                                         |-> IF n = entry.name THEN entry
                                                             ELSE dir.m[n]]],
                                io.write_rc)
          ELSE write_bucket_dir(obj, dir, io.write_rc)

NoOp == [op |-> "init", res |-> "none"]

\* no ceph_choose_frag call is running
NoChoose == [pc |-> "idle", in |-> 0, v |-> 0, t |-> 0, found |-> 0, pfrag |-> None,
             path |-> << >>]

\* ------------------------------------------------------------------ actions
LeaseValidNow(in, mask) ==
  ceph_inode_lease_valid(ilease[in], sessions, issued[in], jiffies, mask)

\* an MDS reply r (with optional dirfrag info) is assimilated into inode in
FillInode(in, r, dirinfo, a) ==
  /\ fault = "none"
  /\ ~i_fragtree_mutex[in]          \* the tree merge and the dirfrag update take the mutex
  /\ \E c \in {ci[in]} :
     \E f \in {ceph_fill_inode(c, i_fragtree[in], issued[in], r, dirinfo, a,
                                mount_rbytes)} :
     /\ ci' = [ci EXCEPT ![in] = f.c]
     /\ i_fragtree' = [i_fragtree EXCEPT ![in] = f.tree]
     /\ fault' = f.fault
     /\ last' = [op |-> "fill", res |-> IF f.err = 0 THEN "ok" ELSE "error"]
     /\ UNCHANGED << dcacheSt, issued, mount_rbytes, bucket, run, ilease, i_count, sessions, jiffies,
                     chooseSt, cacheSt >>

\* the lease handed back before an MDS request is dispatched
LeaseRelease(in, mask, doit) ==
  IF doit
  THEN \E rel \in {ceph_mdsc_lease_release(ilease, i_count, sessions, in, mask)} :
         ilease' = rel.ilease /\ i_count' = rel.i_count /\ sessions' = rel.sessions
  ELSE UNCHANGED << dcacheSt, ilease, i_count, sessions >>

\* local utimes; the local time_warp_seq may run one ahead of the largest the MDS sends
SetattrTime(in, attr, now) ==
  /\ fault = "none"
  /\ ci[in].i_time_warp_seq <= MaxSeq
  /\ \E u \in {ceph_setattr_time(ci[in], issued[in],
                                  LeaseValidNow(in, CEPH_LOCK_ICONTENT), attr, now)} :
     /\ ci' = [ci EXCEPT ![in] = u.c]
     /\ LeaseRelease(in, CEPH_LOCK_ICONTENT, u.res = "request")
     /\ last' = [op |-> "setattr_time", res |-> u.res]
     /\ UNCHANGED << dcacheSt, i_fragtree, issued, mount_rbytes, bucket, run, fault, jiffies, chooseSt, cacheSt >>

\* local truncate
SetattrSize(in, ia_size, ia_ctime, vm_ok) ==
  /\ fault = "none"
  /\ \E u \in {ceph_setattr_size(ci[in], issued[in],
                                  LeaseValidNow(in, CEPH_LOCK_ICONTENT),
                                  ia_size, ia_ctime, vm_ok)} :
     /\ ci' = [ci EXCEPT ![in] = u.c]
     /\ LeaseRelease(in, CEPH_LOCK_ICONTENT, u.res = "request")
     /\ last' = [op |-> "setattr_size", res |-> u.res]
     /\ UNCHANGED << dcacheSt, i_fragtree, issued, mount_rbytes, bucket, run, fault, jiffies, chooseSt, cacheSt >>

\* a write extends the file (ceph_inode_set_size)
InodeSetSize(in, size) ==
  /\ fault = "none"
  /\ ci' = [ci EXCEPT ![in] = ceph_inode_set_size(ci[in], size)]
  /\ last' = [op |-> "set_size", res |-> "ok"]
  /\ UNCHANGED << dcacheSt, i_fragtree, issued, mount_rbytes, bucket, run, fault, ilease, i_count, sessions,
                  jiffies, chooseSt, cacheSt >>

\* the MDS grants or revokes caps: what __ceph_caps_issued returns changes
CapsChange(in, caps) ==
  /\ fault = "none"
  /\ issued[in] # caps
  /\ issued' = [issued EXCEPT ![in] = caps]
  /\ last' = [op |-> "caps", res |-> "ok"]
  /\ UNCHANGED << dcacheSt, ci, i_fragtree, mount_rbytes, bucket, run, fault, ilease, i_count, sessions,
                  jiffies, chooseSt, cacheSt >>

\* ceph_choose_frag(ci, v, pfrag, found) is entered: *found = 0, t is the root,
\* the fragtree mutex is taken
ChooseFragCall(in, v) ==
  /\ fault = "none"
  /\ cf.pc = "idle"
  /\ ~i_fragtree_mutex[in]
  /\ i_fragtree_mutex' = [i_fragtree_mutex EXCEPT ![in] = TRUE]
  /\ cf' = [NoChoose EXCEPT !.pc = "loop", !.in = in, !.v = v, !.t = frag_make(0, 0)]
  /\ last' = [op |-> "choose_frag", res |-> "call"]
  /\ UNCHANGED << dcacheSt, ci, i_fragtree, issued, mount_rbytes, bucket, run, fault, ilease, i_count, sessions,
                  jiffies, cacheSt >>

\* one iteration of the descent; path collects the split nodes passed
ChooseFragStep ==
  /\ fault = "none"
  /\ cf.pc = "loop"
  /\ \E st \in {choose_frag_step(i_fragtree[cf.in], cf.t, cf.v)} :
       /\ cf' = [cf EXCEPT !.pc = st.pc, !.t = st.t, !.found = st.found,
                           !.pfrag = st.pfrag,
                           !.path = IF st.pc = "loop" THEN Append(@, cf.t) ELSE @]
       /\ fault' = IF st.bug THEN "bug_choose_frag" ELSE fault
       /\ last' = [op |-> "choose_frag", res |-> st.pc]
  /\ UNCHANGED << dcacheSt, ci, i_fragtree, issued, mount_rbytes, bucket, run, ilease, i_count, sessions,
                  jiffies, i_fragtree_mutex, cacheSt >>

\* the mutex is released and t returned (cf.t stays as the value returned)
ChooseFragReturn ==
  /\ fault = "none"
  /\ cf.pc = "out"
  /\ i_fragtree_mutex' = [i_fragtree_mutex EXCEPT ![cf.in] = FALSE]
  /\ cf' = [NoChoose EXCEPT !.in = cf.in, !.t = cf.t]
  /\ last' = [op |-> "choose_frag", res |-> IF cf.found = 1 THEN "found" ELSE "leaf"]
  /\ UNCHANGED << dcacheSt, ci, i_fragtree, issued, mount_rbytes, bucket, run, fault, ilease, i_count, sessions,
                  jiffies, cacheSt >>

\* a reply's inode lease from session s is processed (update_inode_lease);
\* from_time is the jiffies value at which the request was sent
UpdateInodeLease(in, s, lease, from_time) ==
  /\ fault = "none"
  /\ from_time <= jiffies
  /\ \E u \in {apply_update_inode_lease(ilease, i_count, sessions, in, s, lease,
                                        from_time)} :
       /\ ilease' = u.ilease
       /\ i_count' = u.i_count
       /\ sessions' = u.sessions
       /\ last' = [op |-> "update_lease",
                   res |-> IF u.ret = {} THEN "ignored" ELSE "accepted"]
  /\ UNCHANGED << dcacheSt, ci, i_fragtree, issued, mount_rbytes, bucket, run, fault, jiffies, chooseSt, cacheSt >>

\* a caller asks ceph_inode_lease_valid(inode, mask)
CheckLeaseValid(in, mask) ==
  /\ fault = "none"
  /\ last' = [op |-> "lease_valid",
              res |-> IF LeaseValidNow(in, mask) THEN "valid" ELSE "invalid"]
  /\ UNCHANGED << dcacheSt, ci, i_fragtree, issued, mount_rbytes, bucket, run, fault, ilease, i_count, sessions,
                  jiffies, chooseSt, cacheSt >>

\* the inode lease is handed back to the MDS (ceph_mdsc_lease_release)
ReleaseLease(in, mask) ==
  /\ fault = "none"
  /\ ilease[in].i_lease_mask \cap mask # {}
  /\ LeaseRelease(in, mask, TRUE)
  /\ last' = [op |-> "lease_release", res |-> "ok"]
  /\ UNCHANGED << dcacheSt, ci, i_fragtree, issued, mount_rbytes, bucket, run, fault, jiffies, chooseSt, cacheSt >>

\* the session's caps are renewed by the MDS: s_cap_ttl moves ahead of jiffies
SessionRenewCaps(s, ticks) ==
  /\ fault = "none"
  /\ sessions[s].s_cap_ttl # jiffies + ticks
  /\ sessions' = [sessions EXCEPT ![s].s_cap_ttl = jiffies + ticks]
  /\ last' = [op |-> "renew_caps", res |-> "ok"]
  /\ UNCHANGED << dcacheSt, ci, i_fragtree, issued, mount_rbytes, bucket, run, fault, ilease, i_count, jiffies,
                  chooseSt, cacheSt >>

\* the session went stale and was reconnected: s_cap_gen is bumped
SessionBumpGen(s) ==
  /\ fault = "none"
  /\ sessions[s].s_cap_gen < MaxGen
  /\ sessions' = [sessions EXCEPT ![s].s_cap_gen = @ + 1]
  /\ last' = [op |-> "bump_gen", res |-> "ok"]
  /\ UNCHANGED << dcacheSt, ci, i_fragtree, issued, mount_rbytes, bucket, run, fault, ilease, i_count, jiffies,
                  chooseSt, cacheSt >>

\* the clock ticks
Tick ==
  /\ fault = "none"
  /\ jiffies < MaxJiffies
  /\ jiffies' = jiffies + 1
  /\ last' = [op |-> "tick", res |-> "ok"]
  /\ UNCHANGED << dcacheSt, ci, i_fragtree, issued, mount_rbytes, bucket, run, fault, ilease, i_count, sessions,
                  chooseSt, cacheSt >>

\* the slot a slab allocation would hand out: the lowest free one
FreeSlots == { in \in Inodes : icache[in].i_state = "free" }
LowestFree == IF FreeSlots = {} THEN None
              ELSE Some(CHOOSE in \in FreeSlots : \A j \in FreeSlots : in <= j)

\* thread p calls ceph_get_inode(sb, vino) and iget5_locked returns: NULL
\* (-ENOMEM), a new inode (I_NEW, initialised by ceph_alloc_inode), or a hashed
\* one with a reference added, after waiting if it is still I_NEW
GetInodeCall(p, vino, alloc_ok) ==
  /\ fault = "none"
  /\ getter[p].pc = "idle"
  /\ \E g \in {ceph_get_inode(icache, vino, IF alloc_ok THEN LowestFree ELSE None)} :
       /\ icache' = g.cache
       /\ IF g.in = 0
          THEN /\ last' = [op |-> "get_inode", res |-> "enomem"]
               /\ UNCHANGED << dcacheSt, getter, i_count, ci, i_fragtree, ilease >>
          ELSE /\ getter' = [getter EXCEPT ![p] =
                    [pc |-> IF g.created THEN "new"
                            ELSE IF icache[g.in].i_state = "new" THEN "wait" ELSE "have",
                     vino |-> vino, in |-> g.in]]
               /\ i_count' = [i_count EXCEPT ![g.in] = IF g.created THEN 1 ELSE @ + 1]
               /\ ci' = IF g.created THEN [ci EXCEPT ![g.in] = AllocInode] ELSE ci
               /\ i_fragtree' = IF g.created THEN [i_fragtree EXCEPT ![g.in] = << >>]
                                ELSE i_fragtree
               /\ ilease' = IF g.created THEN [ilease EXCEPT ![g.in] = AllocLease]
                            ELSE ilease
               /\ last' = [op |-> "get_inode",
                           res |-> IF g.created THEN "new" ELSE "found"]
  /\ UNCHANGED << dcacheSt, issued, mount_rbytes, bucket, run, fault, sessions, jiffies, chooseSt >>

\* the creating thread: if (inode->i_state & I_NEW) unlock_new_inode(inode); return
GetInodeUnlock(p) ==
  /\ fault = "none"
  /\ getter[p].pc = "new"
  /\ icache' = [icache EXCEPT ![getter[p].in].i_state = "live"]
  /\ getter' = [getter EXCEPT ![p].pc = "have"]
  /\ last' = [op |-> "get_inode", res |-> "unlocked"]
  /\ UNCHANGED << dcacheSt, ci, i_fragtree, issued, mount_rbytes, bucket, run, fault, ilease, i_count, sessions,
                  jiffies, chooseSt >>

\* a thread that found an I_NEW inode is woken once I_NEW is cleared, and returns
GetInodeWake(p) ==
  /\ fault = "none"
  /\ getter[p].pc = "wait"
  /\ icache[getter[p].in].i_state = "live"
  /\ getter' = [getter EXCEPT ![p].pc = "have"]
  /\ last' = [op |-> "get_inode", res |-> "woken"]
  /\ UNCHANGED << dcacheSt, ci, i_fragtree, issued, mount_rbytes, bucket, run, fault, ilease, i_count, sessions,
                  jiffies, chooseSt, icache >>

\* thread p drops its reference (iput); the inode stays hashed
Iput(p) ==
  /\ fault = "none"
  /\ getter[p].pc = "have"
  /\ i_count' = [i_count EXCEPT ![getter[p].in] = @ - 1]
  /\ getter' = [getter EXCEPT ![p] = IdleGetter]
  /\ last' = [op |-> "iput", res |-> "ok"]
  /\ UNCHANGED << dcacheSt, ci, i_fragtree, issued, mount_rbytes, bucket, run, fault, ilease, sessions,
                  jiffies, chooseSt, icache >>

\* the VFS prunes an unreferenced inode: unhashed, ceph_destroy_inode frees the
\* symlink, the fragment tree and the xattr blob, the slot returns to the slab
PruneInode(in) ==
  /\ fault = "none"
  /\ icache[in].i_state = "live"
  /\ i_count[in] = 0
  /\ icache' = [icache EXCEPT ![in] = FreeSlot]
  /\ ci' = [ci EXCEPT ![in].i_symlink = None, ![in].i_xattr_data = None]
  /\ i_fragtree' = [i_fragtree EXCEPT ![in] = << >>]
  /\ last' = [op |-> "destroy_inode", res |-> "ok"]
  /\ UNCHANGED << dcacheSt, issued, mount_rbytes, bucket, run, fault, ilease, i_count, sessions, jiffies,
                  chooseSt, getter >>

\* ---------------------------------------------------------------------- Init
InitCommon ==
  /\ ci = [in \in Inodes |-> AllocInode]
  /\ i_fragtree = [in \in Inodes |-> << >>]
  /\ issued = [in \in Inodes |-> {}]
  /\ fault = "none"
  /\ ilease = [in \in Inodes |-> AllocLease]
  /\ sessions = [s \in Sessions |-> [s_cap_gen |-> 0, s_cap_ttl |-> 0,
                                     s_inode_leases |-> << >>]]
  /\ jiffies = 0
  /\ last = NoOp
  /\ i_fragtree_mutex = [in \in Inodes |-> FALSE]
  /\ cf = NoChoose
  /\ getter = [p \in Threads |-> IdleGetter]
  /\ run = [p \in Threads |-> IdleRun]
  /\ dentries = [dn \in Dentries |-> FreeDentry]
  /\ s_root = NoDentry
  /\ s_dentry_leases = [s \in Sessions |-> << >>]
  /\ req = NoReq
  /\ i_mutex = [in \in Inodes |-> FALSE]

\* both inode slots hold a hashed inode that a caller references
InitState ==
  /\ InitCommon
  /\ icache = [in \in Inodes |-> [vino |-> [ino |-> in, snap |-> CEPH_NOSNAP],
                                   i_state |-> "live"]]
  /\ i_count = [in \in Inodes |-> 1]

Init == InitState /\ mount_rbytes = FALSE /\ bucket = NoBucketDir

\* the inode cache is empty
InitIno ==
  /\ InitCommon
  /\ icache = [in \in Inodes |-> FreeSlot]
  /\ i_count = [in \in Inodes |-> 0]
  /\ mount_rbytes = FALSE /\ bucket = NoBucketDir

\* ------------------------------------------------- Spec: attribute reconciler
\* one inode under MDS replies, local utimes and cap changes
Next ==
  \/ \E r \in TimeReplies : FillInode(1, r, None, AllocOk)
  \/ \E attr \in UtimeAttrs, now \in Times : SetattrTime(1, attr, now)
  \/ \E caps \in CapSets : CapsChange(1, caps)

Spec == Init /\ [][Next]_vars

\* ------------------------------------------------------ SpecSize: inode size
\* one inode under MDS replies, local truncates, writes and cap changes
NextSize ==
  \/ \E r \in SizeReplies : FillInode(1, r, None, AllocOk)
  \/ \E sz \in SizeVals, ct \in Times, ok \in BOOLEAN : SetattrSize(1, sz, ct, ok)
  \/ \E sz \in SizeVals : InodeSetSize(1, sz)
  \/ \E caps \in CapSets : CapsChange(1, caps)

SpecSize == Init /\ [][NextSize]_vars

\* --------------------------------------------------- SpecFrag: fragment tree
\* one directory inode under replies with splits and dirfrag info, with or
\* without memory for new nodes, and descents of ceph_choose_frag
NextFrag ==
  \/ \E r \in FragReplies, ok \in BOOLEAN :
       FillInode(1, r, None, [AllocOk EXCEPT !.frag_fail = IF ok THEN {} ELSE {1}])
  \/ \E d \in DirInfos, ok \in BOOLEAN :
       FillInode(1, DirReply, Some(d), [AllocOk EXCEPT !.dir_ok = ok])
  \/ \E v \in HashVals : ChooseFragCall(1, v)
  \/ ChooseFragStep
  \/ ChooseFragReturn

SpecFrag == Init /\ [][NextFrag]_vars

\* ------------------------------------------------------- SpecFill: fill inode
\* one inode under replies of every kind, on a mount with or without rbytes
InitFill == InitState /\ mount_rbytes \in BOOLEAN /\ bucket = NoBucketDir

NextFill ==
  \/ \E call \in SomeFillCalls : FillInode(1, call[1], call[2], call[3])
  \/ \E caps \in { {}, {CEPH_CAP_EXCL, CEPH_CAP_WR} } : CapsChange(1, caps)

SpecFill == InitFill /\ [][NextFill]_vars

\* ------------------------------------------------------ SpecLease: inode leases
\* inode 1 takes leases from both sessions; inode 2 takes one lease from
\* session 1, so that the session's lease list has an order; session 1 is
\* renewed and reconnected, the clock ticks, EXCL comes and goes
NextLease ==
  \/ \E s \in Sessions, lease \in Leases, ft \in {0, jiffies} :
       UpdateInodeLease(1, s, lease, ft)
  \/ UpdateInodeLease(2, 1, [mask |-> CEPH_LOCK_IAUTH, duration_ms |-> 4], jiffies)
  \/ \E m \in QueryMasks : CheckLeaseValid(1, m)
  \/ \E m \in {CEPH_LOCK_IAUTH, CEPH_LOCK_ICONTENT} : ReleaseLease(1, m)
  \/ SessionRenewCaps(1, 1)
  \/ SessionBumpGen(1)
  \/ Tick
  \/ \E caps \in { {}, {CEPH_CAP_EXCL} } : CapsChange(1, caps)

SpecLease == Init /\ [][NextLease]_vars

\* ------------------------------------------------------ SpecIno: inode cache
\* two threads look inodes up, drop them, and the VFS prunes unreferenced ones
NextIno ==
  \/ \E p \in Threads, vino \in Vinos, ok \in BOOLEAN : GetInodeCall(p, vino, ok)
  \/ \E p \in Threads : GetInodeUnlock(p)
  \/ \E p \in Threads : GetInodeWake(p)
  \/ \E p \in Threads : Iput(p)
  \/ \E in \in Inodes : PruneInode(in)

SpecIno == InitIno /\ [][NextIno]_vars

\* ------------------------------------------------- SpecTrace: reply traces
\* the inode slots and dentry slots of the mount the traces are about
TraceInodes == {1, 2, 3}
Names == {"a", "b"}

\* every allocation of a ceph_fill_trace call succeeds
TraceAllocOk == [inode_ok |-> TRUE, dentry_ok |-> TRUE, di_ok |-> TRUE,
                 splice_ok |-> TRUE, fill |-> AllocOk]

\* the allocation outcomes of a call: all succeed, or one kind fails
TraceAllocs ==
  { TraceAllocOk,
    [TraceAllocOk EXCEPT !.inode_ok = FALSE], [TraceAllocOk EXCEPT !.dentry_ok = FALSE],
    [TraceAllocOk EXCEPT !.di_ok = FALSE], [TraceAllocOk EXCEPT !.splice_ok = FALSE] }

\* the entry of a trace for inode ino: a directory or a regular file
TraceIn(ino, mode) ==
  [vino |-> [ino |-> ino, snap |-> CEPH_NOSNAP], info |-> TypedReply(1, mode)]

NoLease == [mask |-> {}, duration_ms |-> 0]
DnLease == [mask |-> CEPH_LOCK_DN, duration_ms |-> 4]

\* a reply trace: the inodes inos from the root down, the names between
\* them, one lease il for every inode and one lease dl for every dentry
Trace(inos, names, il, dl, snapdirpos) ==
  [trace_numi |-> Len(inos), trace_numd |-> Len(names),
   trace_in |-> [k \in 1 .. Len(inos) |->
                   TraceIn(inos[k], IF k < Len(inos) \/ k = 1 THEN S_IFDIR ELSE S_IFREG)],
   trace_ilease |-> [k \in 1 .. Len(inos) + 1 |-> il],
   trace_dname |-> names,
   trace_dlease |-> [k \in 1 .. Len(names) |-> dl],
   trace_dir |-> [k \in 1 .. Len(inos) |-> None],
   trace_snapdirpos |-> snapdirpos]

\* the shapes of the traces: empty, the root alone, one or two names below
\* the root ending in an inode (positive) or in nothing (a null dentry)
TraceShapes ==
  { << << >>, << >> >>, << << 1 >>, << >> >>,
    << << 1, 2 >>, << "a" >> >>, << << 1, 3 >>, << "a" >> >>, << << 1 >>, << "a" >> >>,
    << << 1, 2, 3 >>, << "a", "b" >> >>, << << 1, 2 >>, << "a", "b" >> >> }

TraceReplies ==
  { Trace(sh[1], sh[2], il, dl, 0) :
      sh \in TraceShapes,
      il \in { NoLease, [mask |-> CEPH_LOCK_ICONTENT, duration_ms |-> 4] },
      dl \in { NoLease, DnLease, [mask |-> CEPH_LOCK_DN, duration_ms |-> 8] } }
  \cup { Trace(<< 1, 2 >>, << "a" >>, NoLease, DnLease, 1) }

\* what the caller of the request holds: nothing; a new dentry for name under
\* the root (a lookup or create, the root's i_mutex held); the cached dentry
\* of name (an unlink, the root's i_mutex held, or a getattr); a rename of the
\* cached dentry of name onto a new dentry of the other name
ReqKinds ==
  { [kind |-> "none", name |-> "a", started |-> t] : t \in {0, 1} }
  \cup { [kind |-> k, name |-> n, started |-> 0] :
           k \in {"new", "cached", "cached_nolock", "rename"}, n \in Names }

OtherName(n) == IF n = "a" THEN "b" ELSE "a"

\* the state the operations work on, as a world with an empty trail
World ==
  [icache |-> icache, ci |-> ci, i_fragtree |-> i_fragtree, issued |-> issued,
   ilease |-> ilease, i_count |-> i_count, sessions |-> sessions,
   dentries |-> dentries, s_root |-> s_root, s_dentry_leases |-> s_dentry_leases,
   req |-> req, i_mutex |-> i_mutex, fault |-> fault, mount_rbytes |-> mount_rbytes,
   ev |-> << >>]

\* the world after the caller of kind k set its request up, None if it cannot
PrepareReq(w, k) ==
  LET root == w.s_root
      rin == IF root = NoDentry THEN 0 ELSE w.dentries[root].d_inode
      r0 == [NoReq EXCEPT !.r_request_started = k.started]
      have == IF root = NoDentry THEN [w |-> w, dn |-> NoDentry]
              ELSE d_lookup(w, root, k.name)
      fresh(w0, n) == d_alloc(w0, root, n, TRUE)
  IN CASE k.kind = "none" -> Some([w EXCEPT !.req = r0])
       [] k.kind = "new" ->
            IF root = NoDentry \/ have.dn # NoDentry \/ w.i_mutex[rin] THEN None
            ELSE Bind(fresh(w, k.name), LAMBDA n :
                   IF n.dn = NoDentry THEN None
                   ELSE Some([n.w EXCEPT !.req = [r0 EXCEPT !.r_last_dentry = n.dn,
                                                            !.r_locked_dir = rin]]))
       [] k.kind = "cached" ->
            IF have.dn = NoDentry \/ w.i_mutex[rin] THEN None
            ELSE Some([have.w EXCEPT !.req = [r0 EXCEPT !.r_last_dentry = have.dn,
                                                        !.r_locked_dir = rin]])
       [] k.kind = "cached_nolock" ->
            IF have.dn = NoDentry THEN None
            ELSE Some([have.w EXCEPT !.req = [r0 EXCEPT !.r_last_dentry = have.dn]])
       [] k.kind = "rename" ->
            IF have.dn = NoDentry \/ w.i_mutex[rin] \/ have.w.dentries[have.dn].d_inode = 0
            THEN None
            ELSE Bind(fresh(have.w, OtherName(k.name)), LAMBDA n :
                   IF n.dn = NoDentry THEN None
                   ELSE Some([n.w EXCEPT !.req = [r0 EXCEPT !.r_last_dentry = n.dn,
                                                            !.r_old_dentry = have.dn,
                                                            !.r_locked_dir = rin]]))

\* the variables take the state of world w
Becomes(w) ==
  /\ icache' = w.icache /\ ci' = w.ci /\ i_fragtree' = w.i_fragtree
  /\ ilease' = w.ilease /\ i_count' = w.i_count /\ sessions' = w.sessions
  /\ dentries' = w.dentries /\ s_root' = w.s_root
  /\ s_dentry_leases' = w.s_dentry_leases /\ req' = w.req /\ fault' = w.fault

\* the reply rinfo to a request of kind k arrives from session s and is
\* assimilated by ceph_fill_trace
FillTrace(k, rinfo, s, a) ==
  /\ fault = "none"
  /\ req = NoReq
  /\ \E p \in {PrepareReq(World, k)} :
       /\ IsSome(p)
       /\ \E r \in {ceph_fill_trace(p[1], rinfo, s, a)} :
            /\ Becomes(r.w)
            /\ last' = [op |-> "fill_trace",
                         res |-> IF rinfo.trace_numi = 0 THEN "empty"
                                 ELSE IF r.err = 0 THEN "ok" ELSE "error",
                         ev |-> r.w.ev]
  /\ UNCHANGED << issued, mount_rbytes, bucket, run, jiffies, chooseSt, getter, i_mutex >>

\* the request is done: what it still holds is dropped
PutRequest ==
  /\ fault = "none"
  /\ req # NoReq
  /\ \E w \in {dput(dput(World, req.r_last_dentry), req.r_old_dentry)} :
       Becomes([(IF req.r_last_inode # 0 THEN iput(w, req.r_last_inode) ELSE w)
                  EXCEPT !.req = NoReq])
  /\ last' = [op |-> "put_request", res |-> "ok"]
  /\ UNCHANGED << issued, mount_rbytes, bucket, run, jiffies, chooseSt, getter, i_mutex >>

\* another thread takes or releases the i_mutex of directory in
OtherMutex(in) ==
  /\ fault = "none"
  /\ req = NoReq
  /\ icache[in].i_state = "live"
  /\ i_mutex' = [i_mutex EXCEPT ![in] = ~@]
  /\ last' = [op |-> "i_mutex", res |-> "ok"]
  /\ UNCHANGED << ci, i_fragtree, issued, mount_rbytes, bucket, run, fault, ilease, i_count, sessions,
                  jiffies, chooseSt, cacheSt, dentries, s_root, s_dentry_leases, req >>

\* an entry of a readdir reply: name is inode ino, of file type mode
DirEntry(name, ino, mode, dl) ==
  [name |-> name, in |-> TraceIn(ino, mode), dlease |-> dl, ilease |-> NoLease]

\* a readdir reply (dir_nr, dir_dname, dir_in, dir_dlease, dir_ilease,
\* dir_dir; lssnap: head->op is CEPH_MDS_OP_LSSNAP)
Readdir(entries) == [entries |-> entries, dir_dir |-> None, lssnap |-> FALSE]

\* readdir replies about the root: one name, and two names with the inodes
\* either way round
ReaddirReplies ==
  { Readdir(<< DirEntry("a", i, S_IFREG, dl) >>) : i \in {2, 3}, dl \in {NoLease, DnLease} }
  \cup { Readdir(<< DirEntry("a", x[1], S_IFREG, dl), DirEntry("b", x[2], S_IFDIR, dl) >>) :
           x \in { << 2, 3 >>, << 3, 2 >> }, dl \in {NoLease, DnLease} }
  \cup { [Readdir(<< DirEntry("a", 2, S_IFREG, NoLease) >>) EXCEPT !.lssnap = TRUE],
          [Readdir(<< DirEntry("a", 2, S_IFREG, NoLease) >>)
             EXCEPT !.dir_dir = Some([frag |-> frag_make(0, 0), auth |-> 0, ndist |-> 0,
                                      dist |-> << >>])] }

\* the world after the caller of a readdir on the root set its request up:
\* r_last_dentry is the root dentry
ReaddirReq(w) ==
  [dget(w, w.s_root) EXCEPT !.req = [NoReq EXCEPT !.r_last_dentry = w.s_root]]

\* the readdir reply rinfo from session s is assimilated
ReaddirPrepopulate(rinfo, s, a) ==
  /\ fault = "none"
  /\ req = NoReq
  /\ s_root # NoDentry
  /\ \E r \in {ceph_readdir_prepopulate(ReaddirReq(World), rinfo, s, a)} :
       /\ Becomes(r.w)
       /\ last' = [op |-> "readdir_prepopulate",
                    res |-> IF r.err = 0 THEN "ok" ELSE "error", ev |-> r.w.ev]
  /\ UNCHANGED << issued, mount_rbytes, bucket, run, jiffies, chooseSt, getter, i_mutex >>

\* just mounted: no inode, no dentry, no root
InitTrace ==
  /\ ci = [in \in TraceInodes |-> AllocInode]
  /\ i_fragtree = [in \in TraceInodes |-> << >>]
  /\ issued = [in \in TraceInodes |-> {}]
  /\ ilease = [in \in TraceInodes |-> AllocLease]
  /\ i_count = [in \in TraceInodes |-> 0]
  /\ icache = [in \in TraceInodes |-> FreeSlot]
  /\ i_fragtree_mutex = [in \in TraceInodes |-> FALSE]
  /\ i_mutex = [in \in TraceInodes |-> FALSE]
  /\ sessions = [s \in Sessions |-> [s_cap_gen |-> 0, s_cap_ttl |-> 0,
                                     s_inode_leases |-> << >>]]
  /\ dentries = [dn \in Dentries |-> FreeDentry]
  /\ s_root = NoDentry
  /\ s_dentry_leases = [s \in Sessions |-> << >>]
  /\ req = NoReq
  /\ fault = "none" /\ jiffies = 0 /\ last = NoOp /\ cf = NoChoose
  /\ getter = [p \in Threads |-> IdleGetter]
  /\ run = [p \in Threads |-> IdleRun]
  /\ mount_rbytes = FALSE /\ bucket = NoBucketDir

\* the calls that happen to the mount: the root alone; a name bound, bound to
\* another inode and unbound; a lookup by a caller that holds a new dentry,
\* answered with a trace and with an empty one; two names in a row
SomeTraceCalls ==
  LET plain == [kind |-> "none", name |-> "a", started |-> 0]
  IN { << plain, Trace(<< 1 >>, << >>, NoLease, NoLease, 0), 1, TraceAllocOk >>,
       << plain, Trace(<< 1, 2 >>, << "a" >>, NoLease, DnLease, 0), 1, TraceAllocOk >>,
       << plain, Trace(<< 1, 3 >>, << "a" >>, NoLease, NoLease, 0), 1, TraceAllocOk >>,
       << plain, Trace(<< 1 >>, << "a" >>, NoLease, DnLease, 0), 1, TraceAllocOk >>,
       << [plain EXCEPT !.kind = "new"], Trace(<< 1, 2 >>, << "a" >>, NoLease, NoLease, 0),
          1, TraceAllocOk >>,
       << [plain EXCEPT !.kind = "new"], Trace(<< >>, << >>, NoLease, NoLease, 0),
          1, TraceAllocOk >>,
       << plain, Trace(<< 1, 2, 3 >>, << "a", "b" >>, NoLease, DnLease, 0), 1,
          TraceAllocOk >> }

NextTrace ==
  \/ \E c \in SomeTraceCalls : FillTrace(c[1], c[2], c[3], c[4])
  \/ ReaddirPrepopulate(Readdir(<< DirEntry("a", 3, S_IFREG, NoLease),
                                   DirEntry("b", 2, S_IFDIR, NoLease) >>), 1, TraceAllocOk)
  \/ PutRequest
  \/ OtherMutex(1)

SpecTrace == InitTrace /\ [][NextTrace]_vars

\* ---------------------------------------------- SpecXattr: xattrs and setattr
\* a snapshot id that is neither NOSNAP nor the snapdir
SomeSnap == "snap_1"

\* "user.a", "user.b", "trusted.a" and "us"
NameA == UserPrefix \o << 97 >>
NameB == UserPrefix \o << 98 >>
NameTrusted == << 116, 114, 117, 115, 116, 101, 100, 46, 97 >>
NameShort == << 117, 115 >>

\* the MDS encoding of a list of (name, value) pairs: a 32-bit count, then for
\* each pair the name length, the name, the value length, the value
RECURSIVE encode_entries(_, _)
encode_entries(list, i) ==
  IF i > Len(list) THEN << >>
  ELSE ceph_encode_32(Len(list[i].name)) \o list[i].name
         \o ceph_encode_32(Len(list[i].val)) \o list[i].val
         \o encode_entries(list, i + 1)

ceph_encode_xattrs(list) == ceph_encode_32(Len(list)) \o encode_entries(list, 1)

\* xattr lists of an inode: none, user.a = "xy", and user.a = "x", user.b = "yz"
XattrLists ==
  { << >>,
    << [name |-> NameA, val |-> << 120, 121 >>] >>,
    << [name |-> NameA, val |-> << 120 >>], [name |-> NameB, val |-> << 121, 122 >>] >> }

\* a reply for a file or directory carrying the blob (empty: no xattrs sent)
\* and, for a directory, 12 files and 3 subdirectories
XattrReply(mode, blob) ==
  [TypedReply(0, mode) EXCEPT !.xattr_len = Len(blob), !.xattr_data = blob,
                              !.files = IF mode = S_IFDIR THEN 12 ELSE 0,
                              !.subdirs = IF mode = S_IFDIR THEN 3 ELSE 0]

XattrReplies ==
  { XattrReply(S_IFREG, << >>),
    XattrReply(S_IFREG, ceph_encode_xattrs(<< [name |-> NameA, val |-> << 120, 121 >>] >>)),
    XattrReply(S_IFDIR, << >>),
    XattrReply(S_IFDIR, ceph_encode_xattrs(<< [name |-> NameA, val |-> << 120, 121 >>] >>)) }

\* the state setattr, setxattr and removexattr work on, with an empty trail
XState ==
  [ci |-> ci, ilease |-> ilease, i_count |-> i_count, sessions |-> sessions, ev |-> << >>]

\* the outcome r of such a call becomes the state
XBecomes(r, op) ==
  /\ ci' = r.st.ci
  /\ ilease' = r.st.ilease
  /\ i_count' = r.st.i_count
  /\ sessions' = r.st.sessions
  /\ last' = [op |-> op, res |-> "done", ret |-> r.err, ev |-> r.st.ev]
  /\ UNCHANGED << dcacheSt, i_fragtree, issued, mount_rbytes, bucket, run, fault, jiffies, chooseSt,
                  cacheSt >>

\* what ceph_do_getattr answers for inode in when the lookup would end in lookup_err
GetattrNow(in, lookup_err) ==
  ceph_do_getattr(icache[in].vino.snap, LeaseValidNow(in, CEPH_LOCK_IXATTR), lookup_err)

\* getxattr(2) on inode in
GetXattr(in, name, size, lookup_err, beyond) ==
  /\ fault = "none"
  /\ \E r \in {ceph_getxattr(ci[in], GetattrNow(in, lookup_err), name, size,
                              NewBuf(size), beyond)} :
       last' = [op |-> "getxattr", res |-> "done", ret |-> r.ret, buf |-> r.buf,
                over |-> r.over, in |-> in, name |-> name, size |-> size]
  /\ UNCHANGED << dcacheSt, ci, i_fragtree, issued, mount_rbytes, bucket, run, fault, ilease, i_count,
                  sessions, jiffies, chooseSt, cacheSt >>

\* listxattr(2) on inode in
ListXattr(in, size, lookup_err) ==
  /\ fault = "none"
  /\ \E r \in {ceph_listxattr(ci[in], GetattrNow(in, lookup_err), size, NewBuf(size))} :
       last' = [op |-> "listxattr", res |-> "done", ret |-> r.ret, buf |-> r.buf,
                in |-> in, size |-> size]
  /\ UNCHANGED << dcacheSt, ci, i_fragtree, issued, mount_rbytes, bucket, run, fault, ilease, i_count,
                  sessions, jiffies, chooseSt, cacheSt >>

\* setattr, setxattr(2) and removexattr(2) on inode in
Setattr(in, attr, now, a) ==
  /\ fault = "none"
  /\ XBecomes(ceph_setattr(XState, in, icache[in].vino.snap, issued[in], attr, now,
                           jiffies, a), "setattr")

SetXattr(in, name, size, a) ==
  /\ fault = "none"
  /\ XBecomes(ceph_setxattr(XState, in, icache[in].vino.snap, name, size, a), "setxattr")

RemoveXattr(in, name, a) ==
  /\ fault = "none"
  /\ XBecomes(ceph_removexattr(XState, in, icache[in].vino.snap, name, a), "removexattr")

\* cap processing queues a truncation the MDS decided on
SetVmtruncateTo(in, to) ==
  /\ fault = "none"
  /\ ci[in].i_vmtruncate_to # to
  /\ ci' = [ci EXCEPT ![in].i_vmtruncate_to = to]
  /\ last' = [op |-> "set_vmtruncate_to", res |-> "ok"]
  /\ UNCHANGED << dcacheSt, i_fragtree, issued, mount_rbytes, bucket, run, fault, ilease, i_count,
                  sessions, jiffies, chooseSt, cacheSt >>

\* the attribute changes callers ask for
SetAttrs ==
  { [ia_valid |-> v, ia_atime |-> 0, ia_mtime |-> 1, ia_size |-> 0, ia_ctime |-> 0] :
      v \in { {"MODE"}, {"UID", "FILE"}, {ATTR_MTIME}, {"SIZE"} } }

\* the ways a request can fail to be built or to succeed
ReqFails ==
  { ReqOk, [ReqOk EXCEPT !.path_ok = FALSE], [ReqOk EXCEPT !.mds_err = -EIO],
    [ReqOk EXCEPT !.pages_ok = FALSE], [ReqOk EXCEPT !.page_fail = 2],
    [ReqOk EXCEPT !.change_err = -1] }

\* the names and value sizes of setxattr and removexattr calls
SetNames == { NameA, NameTrusted, NameShort, _ceph_vir_xattr_recs[1].name }
SetSizes == { 0, 1, PAGE_CACHE_SIZE + 1 }

\* slot 1 is a live inode, slot 2 an inode of a snapshot or a snapdir
InitXattr ==
  /\ InitCommon
  /\ \E snap \in {CEPH_SNAPDIR, SomeSnap} :
       icache = [in \in Inodes |->
                   [vino |-> [ino |-> 1, snap |-> IF in = 1 THEN CEPH_NOSNAP ELSE snap],
                    i_state |-> "live"]]
  /\ i_count = [in \in Inodes |-> 1]
  /\ mount_rbytes = FALSE /\ bucket = NoBucketDir

\* the live inode gets xattrs and statistics from replies, both inodes an
\* IXATTR lease from session 1; a truncation is queued on the snapshot inode;
\* callers get, list, set and remove xattrs and change attributes
NextXattr ==
  \/ \E r \in XattrReplies : FillInode(1, r, None, AllocOk)
  \/ \E in \in Inodes :
       UpdateInodeLease(in, 1, [mask |-> CEPH_LOCK_IXATTR, duration_ms |-> 4], jiffies)
  \/ SetVmtruncateTo(2, 0)
  \/ \E name \in {NameA, _ceph_vir_xattr_recs[1].name}, size \in {0, 1, 3} :
       GetXattr(1, name, size, 0, << >>)
  \/ \E size \in {0, 7, 200} : ListXattr(1, size, 0)
  \/ \E in \in Inodes, attr \in SetAttrs : Setattr(in, attr, 0, ReqOk)
  \/ \E in \in Inodes, name \in {NameA, NameTrusted}, a \in {ReqOk, [ReqOk EXCEPT !.page_fail = 1]} :
       SetXattr(in, name, 1, a)
  \/ \E in \in Inodes, name \in {NameA, _ceph_vir_xattr_recs[1].name} :
       RemoveXattr(in, name, ReqOk)

SpecXattr == InitXattr /\ [][NextXattr]_vars

\* ------------------------------------------------- SpecLock: locks and steps
\* The operations that take locks, one step at a time: a step runs from one
\* lock operation to the next.  A thread record r = [op, pc, held, a, v] has
\* the operation and the position in it, the locks held in the order taken,
\* the arguments and the locals.
ILock(in) == << "i_lock", in >>
DLock(dn) == << "d_lock", dn >>
CapLock(s) == << "s_cap_lock", s >>
FragMutex(in) == << "i_fragtree_mutex", in >>

\* the locks thread record r holds
HeldIn(r) == { r.held[k] : k \in DOMAIN r.held }

\* spin_lock / mutex_lock and spin_unlock / mutex_unlock by the thread of
\* record r, which goes on at pc
spin_lock(r, l, pc) == [r EXCEPT !.held = Append(@, l), !.pc = pc]
spin_unlock(r, l, pc) == [r EXCEPT !.held = SelectSeq(@, LAMBDA x : x # l), !.pc = pc]
Goto(r, pc) == [r EXCEPT !.pc = pc]

\* the operation returns: the thread is idle again
Return(r) == [IdleRun EXCEPT !.held = r.held]
unlock_return(r, l) == Return(spin_unlock(r, l, "idle"))

\* a thread entering operation op with arguments a
Enter(op, a) == [op |-> op, pc |-> "call", held |-> << >>, a |-> a, v |-> NoLocals]

\* ceph_fill_inode from the spin_lock on; a = [in, r, dirinfo]
fill_inode_step(w, r) ==
  LET in == r.a.in
      info == r.a.r
  IN CASE r.pc = "call" ->                                        \* line 409
            [w |-> w, r |-> spin_lock(r, ILock(in), "update")]
       [] r.pc = "update" ->                                      \* lines 411-458
            LET u == IF info.version > 0 /\ w.ci[in].i_version = info.version
                     THEN [c |-> w.ci[in], fault |-> "none"]
                     ELSE fill_update(w.ci[in], w.issued[in], info, TRUE)
            IN [w |-> [w EXCEPT !.ci[in] = u.c, !.fault = u.fault],
                r |-> spin_unlock(r, ILock(in), "mutex_lock")]
       [] r.pc = "mutex_lock" ->                                  \* line 463
            [w |-> w, r |-> spin_lock(r, FragMutex(in), "splits")]
       [] r.pc = "splits" ->                                      \* lines 464-473
            [w |-> [w EXCEPT !.i_fragtree[in] = fill_splits(@, info.splits, 1, {})],
             r |-> spin_unlock(r, FragMutex(in), "dirfrag")]
       [] r.pc = "dirfrag" ->                                     \* lines 476-477, 188
            IF IsSome(r.a.dirinfo)
            THEN [w |-> w, r |-> spin_lock(r, FragMutex(in), "fill_dirfrag")]
            ELSE [w |-> w, r |-> Goto(r, "switch")]
       [] r.pc = "fill_dirfrag" ->                                \* lines 189-230
            [w |-> [w EXCEPT !.i_fragtree[in] =
                               ceph_fill_dirfrag(@, r.a.dirinfo[1], TRUE)],
             r |-> spin_unlock(r, FragMutex(in), "switch")]
       [] OTHER ->                                                \* lines 479-525
            LET ty == fill_type(w.ci[in], info, TRUE, w.mount_rbytes)
            IN [w |-> [w EXCEPT !.ci[in] = ty.c, !.fault = ty.fault], r |-> Return(r)]

\* ceph_inode_lease_valid(inode, mask), as an operation of its own and as
\* called from setattr; a has in and mask, the result is left in v.lv
inode_lease_valid_step(w, r, now) ==
  LET in == r.a.in
      l == w.ilease[in]
      have0 == l.i_lease_mask
                 \cup (IF r.a.mask \cap CEPH_LOCK_ICONTENT # {}
                          /\ CEPH_CAP_EXCL \in w.issued[in]
                       THEN CEPH_LOCK_ICONTENT ELSE {})
      havemask == IF have0 \cap CEPH_LOCK_ICONTENT # {}
                  THEN have0 \cup CEPH_LOCK_ICONTENT ELSE have0
  IN CASE r.pc = "lv_spin_lock" ->                                \* line 592
            [w |-> w, r |-> spin_lock(r, ILock(in), "lv_havemask")]
       [] r.pc = "lv_havemask" ->                                 \* lines 593-607
            Bind([r EXCEPT !.v.have = (havemask \cap r.a.mask) = r.a.mask,
                           !.v.valid = FALSE],
              LAMBDA r1 :
                IF l.i_lease_session # NoSession
                THEN [w |-> w,
                      r |-> spin_lock(r1, CapLock(l.i_lease_session), "lv_cap_locked")]
                ELSE [w |-> w, r |-> Goto(r1, "lv_unlock")])
       [] r.pc = "lv_cap_locked" ->                               \* lines 608-612
            [w |-> w,
             r |-> spin_unlock(
                     [r EXCEPT !.v.valid =
                        /\ w.sessions[l.i_lease_session].s_cap_gen = l.i_lease_gen
                        /\ time_before(now, w.sessions[l.i_lease_session].s_cap_ttl)
                        /\ time_before(now, l.i_lease_ttl)],
                     CapLock(l.i_lease_session), "lv_unlock")]
       [] OTHER ->                                                \* lines 614-621
            [w |-> w,
             r |-> spin_unlock([r EXCEPT !.v.lv = r.v.valid /\ r.v.have],
                               ILock(in), "lv_done")]

\* the pcs inside ceph_inode_lease_valid
LeaseValidPcs == {"lv_spin_lock", "lv_havemask", "lv_cap_locked", "lv_unlock"}

\* the request path of setattr: the ICONTENT lease is handed back
\* (ceph_mdsc_lease_release works under the inode's i_lock), then the request
\* goes to the MDS
setattr_release(w, in) ==
  Bind(ceph_mdsc_lease_release(w.ilease, w.i_count, w.sessions, in, CEPH_LOCK_ICONTENT),
    LAMBDA rel : [w EXCEPT !.ilease = rel.ilease, !.i_count = rel.i_count,
                           !.sessions = rel.sessions])

\* the assignments of a local utimes: with EXCL the time_warp_seq moves too
setattr_time_local(c, excl, attr, now) ==
  [c EXCEPT !.i_time_warp_seq = IF excl THEN @ + 1 ELSE @,
            !.i_atime = IF ATTR_ATIME \in attr.ia_valid THEN attr.ia_atime ELSE @,
            !.i_mtime = IF ATTR_MTIME \in attr.ia_valid THEN attr.ia_mtime ELSE @,
            !.i_ctime = now]

\* ceph_setattr_time; a = [in, mask, attr, now]
setattr_time_step(w, r, now) ==
  LET in == r.a.in
      c == w.ci[in]
      attr == r.a.attr
  IN CASE r.pc = "call" ->                                        \* lines 1436, 1448-1452
            IF CEPH_CAP_EXCL \in w.issued[in] THEN [w |-> w, r |-> Goto(r, "excl")]
            ELSE IF CEPH_CAP_WR \in w.issued[in]
                    /\ (ATTR_MTIME \notin attr.ia_valid
                        \/ timespec_compare(c.i_mtime, attr.ia_mtime) < 0)
                    /\ (ATTR_ATIME \notin attr.ia_valid
                        \/ timespec_compare(c.i_atime, attr.ia_atime) < 0)
            THEN [w |-> w, r |-> Goto(r, "wr")]
            ELSE [w |-> w, r |-> Goto(r, "lv_spin_lock")]
       [] r.pc = "excl" ->                                        \* lines 1438-1444
            [w |-> [w EXCEPT !.ci[in] = setattr_time_local(c, TRUE, attr, r.a.now)],
             r |-> Return(r)]
       [] r.pc = "wr" ->                                          \* lines 1454-1459
            [w |-> [w EXCEPT !.ci[in] = setattr_time_local(c, FALSE, attr, r.a.now)],
             r |-> Return(r)]
       [] r.pc \in LeaseValidPcs -> inode_lease_valid_step(w, r, now)   \* line 1463
       [] r.pc = "lv_done" ->                                     \* lines 1463-1470
            IF r.v.lv /\ ~( (ATTR_ATIME \in attr.ia_valid /\ c.i_atime # attr.ia_atime)
                            \/ (ATTR_MTIME \in attr.ia_valid /\ c.i_mtime # attr.ia_mtime))
            THEN [w |-> w, r |-> Return(r)]
            ELSE [w |-> w, r |-> Goto(r, "request")]
       [] r.pc = "request" ->                                     \* lines 1472-1483
            [w |-> w, r |-> spin_lock(r, ILock(in), "release")]
       [] OTHER ->                                                \* lines 1484-1487
            [w |-> setattr_release(w, in), r |-> unlock_return(r, ILock(in))]

\* ceph_setattr_size; a = [in, mask, ia_size, ia_ctime]
setattr_size_step(w, r, now) ==
  LET in == r.a.in
      c == w.ci[in]
  IN CASE r.pc = "call" ->                                        \* lines 1501-1502
            IF CEPH_CAP_EXCL \in w.issued[in] /\ r.a.ia_size > c.i_size
            THEN [w |-> w, r |-> Goto(r, "vmtruncate")]
            ELSE [w |-> w, r |-> Goto(r, "lv_spin_lock")]
       [] r.pc = "vmtruncate" ->                                  \* lines 1504-1507
            [w |-> w, r |-> spin_lock(r, ILock(in), "set")]
       [] r.pc = "set" ->                                         \* lines 1508-1512
            [w |-> [w EXCEPT !.ci[in] = [c EXCEPT !.i_size = r.a.ia_size,
                                                  !.i_ctime = r.a.ia_ctime,
                                                  !.i_reported_size = r.a.ia_size]],
             r |-> unlock_return(r, ILock(in))]
       [] r.pc \in LeaseValidPcs -> inode_lease_valid_step(w, r, now)   \* line 1514
       [] r.pc = "lv_done" ->                                     \* lines 1514-1518
            IF r.v.lv /\ r.a.ia_size = c.i_size
            THEN [w |-> w, r |-> Return(r)]
            ELSE [w |-> w, r |-> Goto(r, "request")]
       [] r.pc = "request" ->                                     \* lines 1519-1524
            [w |-> w, r |-> spin_lock(r, ILock(in), "release")]
       [] r.pc = "release" ->                                     \* lines 1525-1527
            [w |-> setattr_release(w, in), r |-> spin_unlock(r, ILock(in), "vmtruncate_lock")]
       [] r.pc = "vmtruncate_lock" ->                             \* lines 1528, 1309
            [w |-> w, r |-> spin_lock(r, ILock(in), "pending")]
       [] OTHER ->                                                \* lines 1310-1313
            [w |-> [w EXCEPT !.ci[in].i_vmtruncate_to = -1],
             r |-> unlock_return(r, ILock(in))]

\* ceph_inode_set_size; a = [in, size]
inode_set_size_step(w, r) ==
  LET in == r.a.in
  IN CASE r.pc = "call" ->                                        \* line 1230
            [w |-> w, r |-> spin_lock(r, ILock(in), "set")]
       [] OTHER ->                                                \* lines 1231-1241
            [w |-> [w EXCEPT !.ci[in] = ceph_inode_set_size(@, r.a.size)],
             r |-> unlock_return(r, ILock(in))]

\* update_inode_lease; a = [in, s, lease, from_time]
update_inode_lease_step(w, r) ==
  LET in == r.a.in
      s == r.a.s
  IN CASE r.pc = "call" ->                                        \* lines 553-556
            IF r.a.lease.mask = {} THEN [w |-> w, r |-> Return(r)]
            ELSE [w |-> w, r |-> spin_lock(r, ILock(in), "locked")]
       [] r.pc = "locked" ->                                      \* lines 557-576
            Bind(update_inode_lease(w.ilease[in], w.sessions[s], s, r.a.lease,
                                    r.a.from_time),
              LAMBDA u :
                [w |-> [w EXCEPT !.ilease[in] = u.l,
                                 !.sessions[s].s_inode_leases =
                                    IF u.moved THEN list_move_tail(@, in) ELSE @],
                 r |-> IF u.is_new THEN spin_unlock(r, ILock(in), "igrab")
                       ELSE unlock_return(r, ILock(in))])
       [] OTHER ->                                                \* lines 577-578
            [w |-> igrab(w, in), r |-> Return(r)]

\* the same taking the record for new although another thread made it
dentry_lease_new_race_mut(w, dn, s, ttl) ==
  [w |-> [w EXCEPT !.dentries[dn].d_fsdata =
                     Some([lease_session |-> s, lease_gen |-> w.sessions[s].s_cap_gen]),
                   !.dentries[dn].d_time = ttl],
   is_new |-> TRUE]

\* update_dentry_lease: the steps after the second spin_lock, for a thread
\* that found no lease record under the first; a reference is due (is_new)
\* only when the record is still missing
dentry_lease_new(w, dn, s, ttl) ==
  IF IsSome(w.dentries[dn].d_fsdata)
  THEN [w |-> w, is_new |-> FALSE]                                \* lost a race
  ELSE [w |-> [w EXCEPT !.dentries[dn].d_fsdata =
                          Some([lease_session |-> s,
                                lease_gen |-> w.sessions[s].s_cap_gen]),
                        !.s_dentry_leases[s] = list_add(@, dn),
                        !.dentries[dn].d_time = ttl],
        is_new |-> TRUE]

\* update_dentry_lease; a = [dn, s, lease, from_time, di_ok]
update_dentry_lease_step(w, r) ==
  LET dn == r.a.dn
      s == r.a.s
      d == w.dentries[dn]
      di == d.d_fsdata
      ttl == lease_ttl(r.a.from_time, r.a.lease.duration_ms)
      dir == w.dentries[d.d_parent].d_inode
  IN CASE r.pc = "call" ->                                        \* lines 638-653
            IF r.a.lease.mask = {}
            THEN [w |-> [w EXCEPT !.dentries[dn].d_time = w.ci[dir].i_version],
                  r |-> Return(r)]
            ELSE [w |-> w, r |-> spin_lock(r, DLock(dn), "locked")]
       [] r.pc = "locked" ->                                      \* lines 654-661, 677-684
            IF d.d_time # 0 /\ IsSome(di) /\ di[1].lease_gen = w.sessions[s].s_cap_gen
               /\ time_before(ttl, d.d_time)
            THEN [w |-> w, r |-> unlock_return(r, DLock(dn))]
            ELSE IF ~IsSome(di)
            THEN [w |-> w, r |-> spin_unlock(r, DLock(dn), "kmalloc")]
            ELSE IF di[1].lease_session # s
            THEN [w |-> w, r |-> unlock_return(r, DLock(dn))]
            ELSE [w |-> [w EXCEPT !.s_dentry_leases[s] = list_move_tail(@, dn),
                                  !.dentries[dn].d_time = ttl],
                  r |-> unlock_return(r, DLock(dn))]
       [] r.pc = "kmalloc" ->                                     \* lines 662-666
            IF ~r.a.di_ok THEN [w |-> w, r |-> Return(r)]
            ELSE [w |-> w, r |-> spin_lock(r, DLock(dn), "new")]
       [] r.pc = "new" ->                                         \* lines 667-676, 683-684
            Bind(dentry_lease_new(w, dn, s, ttl),
              LAMBDA n :
                [w |-> n.w,
                 r |-> IF n.is_new THEN spin_unlock(r, DLock(dn), "dget")
                       ELSE unlock_return(r, DLock(dn))])
       [] OTHER ->                                                \* lines 685-688
            [w |-> dget(w, dn), r |-> Return(r)]

\* ceph_dentry_lease_valid; a = [dn]; the result is left in v.lv
dentry_lease_valid_step(w, r, now) ==
  LET dn == r.a.dn
      di == w.dentries[dn].d_fsdata
  IN CASE r.pc = "call" ->                                        \* line 706
            [w |-> w, r |-> spin_lock(r, DLock(dn), "di")]
       [] r.pc = "di" ->                                          \* lines 707-710
            IF IsSome(di)
            THEN [w |-> w, r |-> spin_lock(r, CapLock(di[1].lease_session), "cap_locked")]
            ELSE [w |-> w, r |-> Goto(r, "unlock")]
       [] r.pc = "cap_locked" ->                                  \* lines 711-713
            [w |-> w,
             r |-> spin_unlock(
                     [r EXCEPT !.v.gen = w.sessions[di[1].lease_session].s_cap_gen,
                               !.v.ttl = w.sessions[di[1].lease_session].s_cap_ttl],
                     CapLock(di[1].lease_session), "unlock")]
       [] OTHER ->                                                \* lines 715-722
            [w |-> w,
             r |-> unlock_return(
                     [r EXCEPT !.v.lv = /\ IsSome(di)
                                        /\ di[1].lease_gen = r.v.gen
                                        /\ time_before(now, w.dentries[dn].d_time)
                                        /\ time_before(now, r.v.ttl)],
                     DLock(dn))]

\* ceph_inode_lease_valid called by itself; a = [in, mask]
lease_valid_call_step(w, r, now) ==
  CASE r.pc = "call" -> inode_lease_valid_step(w, Goto(r, "lv_spin_lock"), now)
    [] r.pc \in LeaseValidPcs -> inode_lease_valid_step(w, r, now)
    [] OTHER -> [w |-> w, r |-> Return(r)]                          \* lines 616-621

\* __ceph_do_pending_vmtruncate without the reset of i_vmtruncate_to
pending_vmtruncate_keep_mut(w, r) ==
  LET in == r.a.in
  IN CASE r.pc = "vt_lock" ->
            [w |-> w, r |-> spin_lock(r, ILock(in), "vt_locked")]
       [] r.pc = "vt_locked" ->
            [w |-> w,
             r |-> spin_unlock([r EXCEPT !.v.to = w.ci[in].i_vmtruncate_to,
                                         !.v.wrbuffer_refs = w.ci[in].i_wrbuffer_ref],
                               ILock(in), "vt_test")]
       [] r.pc = "vt_test" ->
            IF r.v.to >= 0
            THEN [w |-> Note(w, << "vmtruncate", r.v.to >>), r |-> Goto(r, "vt_check")]
            ELSE [w |-> w, r |-> Goto(r, "vt_done")]
       [] OTHER ->
            [w |-> IF r.v.wrbuffer_refs = 0 THEN Note(w, << "check_caps", in >>) ELSE w,
             r |-> Goto(r, "vt_done")]

\* __ceph_do_pending_vmtruncate; a = [in]; the caller goes on at vt_done
PendingPcs == {"vt_lock", "vt_locked", "vt_test", "vt_check"}
pending_vmtruncate_step(w, r) ==
  LET in == r.a.in
  IN CASE r.pc = "vt_lock" ->                                     \* line 1309
            [w |-> w, r |-> spin_lock(r, ILock(in), "vt_locked")]
       [] r.pc = "vt_locked" ->                                   \* lines 1310-1313
            [w |-> [w EXCEPT !.ci[in].i_vmtruncate_to = -1],
             r |-> spin_unlock([r EXCEPT !.v.to = w.ci[in].i_vmtruncate_to,
                                         !.v.wrbuffer_refs = w.ci[in].i_wrbuffer_ref],
                               ILock(in), "vt_test")]
       [] r.pc = "vt_test" ->                                     \* lines 1315-1317, 1320
            IF r.v.to >= 0
            THEN [w |-> Note(w, << "vmtruncate", r.v.to >>), r |-> Goto(r, "vt_check")]
            ELSE [w |-> w, r |-> Goto(r, "vt_done")]
       [] OTHER ->                                                \* lines 1318-1319
            [w |-> IF r.v.wrbuffer_refs = 0 THEN Note(w, << "check_caps", in >>) ELSE w,
             r |-> Goto(r, "vt_done")]

\* ceph_vmtruncate_work; a = [in]
IMutex(in) == << "i_mutex", in >>
vmtruncate_work_step(w, r) ==
  CASE r.pc = "call" ->                                           \* line 1292
         [w |-> w, r |-> spin_lock(r, IMutex(r.a.in), "vt_lock")]
    [] r.pc \in PendingPcs -> pending_vmtruncate_step(w, r)        \* line 1293
    [] OTHER -> [w |-> w, r |-> unlock_return(r, IMutex(r.a.in))]  \* line 1294

\* ceph_setattr up to the pending truncation; a = [in, snap]
setattr_pending_step(w, r) ==
  CASE r.pc = "call" ->                                           \* lines 1544-1545
         IF r.a.snap # CEPH_NOSNAP THEN [w |-> w, r |-> Return(r)]
         ELSE [w |-> w, r |-> Goto(r, "vt_lock")]
    [] r.pc \in PendingPcs -> pending_vmtruncate_step(w, r)        \* line 1547
    [] OTHER -> [w |-> w, r |-> Return(r)]

\* thread p makes the step of operation op at pc that leaves n = [w, r]: the
\* world and its record after it; a lock the step takes must be free
StepTo(p, op, pc, n) ==
  /\ fault = "none"
  /\ \A l \in HeldIn(n.r) \ HeldIn(run[p]) :
       \A q \in Threads \ {p} : l \notin HeldIn(run[q])
  /\ Becomes(n.w)
  /\ run' = [run EXCEPT ![p] = n.r]
  /\ i_fragtree_mutex' =
       [in \in Inodes |->
          \E q \in Threads : FragMutex(in) \in HeldIn(IF q = p THEN n.r ELSE run[q])]
  /\ last' = [op |-> op, res |-> pc]
  /\ UNCHANGED << issued, mount_rbytes, bucket, jiffies, cf, getter, i_mutex >>

\* thread p enters operation op and makes its first step
Enters(p, op, n) == run[p].op = "idle" /\ StepTo(p, op, "call", n)

\* thread p, inside operation op, makes its next step
Steps(p, op, n) == run[p].op = op /\ StepTo(p, op, run[p].pc, n)

FillInodeEnter(p, in, r, dirinfo) ==
  Enters(p, "fill_inode",
         fill_inode_step(World, Enter("fill_inode",
                                      [in |-> in, r |-> r, dirinfo |-> dirinfo])))
FillInodeStep(p) == Steps(p, "fill_inode", fill_inode_step(World, run[p]))

SetattrTimeEnter(p, in, attr, now) ==
  Enters(p, "setattr_time",
         setattr_time_step(World, Enter("setattr_time",
                                        [in |-> in, mask |-> CEPH_LOCK_ICONTENT,
                                         attr |-> attr, now |-> now]), jiffies))
SetattrTimeStep(p) ==
  Steps(p, "setattr_time", setattr_time_step(World, run[p], jiffies))

SetattrSizeEnter(p, in, ia_size, ia_ctime) ==
  Enters(p, "setattr_size",
         setattr_size_step(World, Enter("setattr_size",
                                        [in |-> in, mask |-> CEPH_LOCK_ICONTENT,
                                         ia_size |-> ia_size, ia_ctime |-> ia_ctime]),
                           jiffies))
SetattrSizeStep(p) ==
  Steps(p, "setattr_size", setattr_size_step(World, run[p], jiffies))

InodeSetSizeEnter(p, in, size) ==
  Enters(p, "inode_set_size",
         inode_set_size_step(World, Enter("inode_set_size", [in |-> in, size |-> size])))
InodeSetSizeStep(p) == Steps(p, "inode_set_size", inode_set_size_step(World, run[p]))

InodeLeaseValidEnter(p, in, mask) ==
  Enters(p, "inode_lease_valid",
         lease_valid_call_step(World, Enter("inode_lease_valid",
                                            [in |-> in, mask |-> mask]), jiffies))
InodeLeaseValidStep(p) ==
  Steps(p, "inode_lease_valid", lease_valid_call_step(World, run[p], jiffies))

DentryLeaseValidEnter(p, dn) ==
  Enters(p, "dentry_lease_valid",
         dentry_lease_valid_step(World, Enter("dentry_lease_valid", [dn |-> dn]),
                                 jiffies))
DentryLeaseValidStep(p) ==
  Steps(p, "dentry_lease_valid", dentry_lease_valid_step(World, run[p], jiffies))

UpdateInodeLeaseEnter(p, in, s, lease, from_time) ==
  Enters(p, "update_inode_lease",
         update_inode_lease_step(World, Enter("update_inode_lease",
                                              [in |-> in, s |-> s, lease |-> lease,
                                               from_time |-> from_time])))
UpdateInodeLeaseStep(p) ==
  Steps(p, "update_inode_lease", update_inode_lease_step(World, run[p]))

UpdateDentryLeaseEnter(p, dn, s, lease, from_time, di_ok) ==
  Enters(p, "update_dentry_lease",
         update_dentry_lease_step(World, Enter("update_dentry_lease",
                                               [dn |-> dn, s |-> s, lease |-> lease,
                                                from_time |-> from_time,
                                                di_ok |-> di_ok])))
UpdateDentryLeaseStep(p) ==
  Steps(p, "update_dentry_lease", update_dentry_lease_step(World, run[p]))

\* what went out so far: the truncations asked of cap processing, the pages
\* truncated, the cap checks scheduled
Trail == IF "ev" \in DOMAIN last THEN last.ev ELSE << >>

\* a step of thread p as StepTo makes it, what it sends out added to the trail
TrailStepTo(p, op, pc, n) ==
  /\ fault = "none"
  /\ \A l \in HeldIn(n.r) \ HeldIn(run[p]) :
       \A q \in Threads \ {p} : l \notin HeldIn(run[q])
  /\ Becomes(n.w)
  /\ run' = [run EXCEPT ![p] = n.r]
  /\ last' = [op |-> op, res |-> pc, ev |-> Trail \o n.w.ev]
  /\ UNCHANGED << issued, mount_rbytes, bucket, jiffies, cf, getter, i_mutex, i_fragtree_mutex >>

VmtruncateWorkEnter(p, in) ==
  /\ run[p].op = "idle"
  /\ TrailStepTo(p, "vmtruncate_work", "call",
                 vmtruncate_work_step(World, Enter("vmtruncate_work", [in |-> in])))
VmtruncateWorkStep(p) ==
  /\ run[p].op = "vmtruncate_work"
  /\ TrailStepTo(p, "vmtruncate_work", run[p].pc, vmtruncate_work_step(World, run[p]))

SetattrPendingEnter(p, in) ==
  /\ run[p].op = "idle"
  /\ TrailStepTo(p, "setattr", "call",
                 setattr_pending_step(World, Enter("setattr",
                                                   [in |-> in, snap |-> icache[in].vino.snap])))
SetattrPendingStep(p) ==
  /\ run[p].op = "setattr"
  /\ TrailStepTo(p, "setattr", run[p].pc, setattr_pending_step(World, run[p]))

\* cap processing, under the i_lock of inode in: a truncation to is queued
\* (the n-th is a truncation to n - 1), or the buffered writes take
\* or drop their reference
QueueVmtruncate(in, to) ==
  /\ fault = "none"
  /\ \A q \in Threads : ILock(in) \notin HeldIn(run[q])
  /\ to = Cardinality({k \in DOMAIN Trail : Trail[k][1] = "set"})
  /\ ci' = [ci EXCEPT ![in].i_vmtruncate_to = to]
  /\ last' = [op |-> "set_vmtruncate_to", res |-> "ok", ev |-> Append(Trail, << "set", to >>)]
  /\ UNCHANGED << dcacheSt, i_fragtree, issued, mount_rbytes, bucket, run, fault, ilease, i_count,
                  sessions, jiffies, chooseSt, cacheSt >>

WrbufferRef(in, n) ==
  /\ fault = "none"
  /\ \A q \in Threads : ILock(in) \notin HeldIn(run[q])
  /\ ci[in].i_wrbuffer_ref # n
  /\ ci' = [ci EXCEPT ![in].i_wrbuffer_ref = n]
  /\ last' = [op |-> "wrbuffer_ref", res |-> "ok", ev |-> Trail]
  /\ UNCHANGED << dcacheSt, i_fragtree, issued, mount_rbytes, bucket, run, fault, ilease, i_count,
                  sessions, jiffies, chooseSt, cacheSt >>

\* the replies of SpecLock: attributes of a file, and a split directory with
\* recursive statistics
LockFileReply ==
  [BaseReply EXCEPT !.size = 1, !.ctime = 1, !.mtime = 1, !.atime = 1]
LockDirReply ==
  [BaseReply EXCEPT !.version = 1, !.mode = S_IFDIR, !.rbytes = 2,
                    !.splits = << [frag |-> frag_make(0, 0), by |-> 1] >>]

\* the dentry of the file named a in the root directory, as d_alloc and
\* d_add leave it
FileDentry ==
  [FreeDentry EXCEPT !.live = TRUE, !.d_parent = 1, !.d_name = "a", !.d_inode = 2,
                     !.hashed = TRUE, !.d_count = 1]

\* the same holding a lease session 2 granted until 1 when its cap_gen was 0
LeasedFileDentry ==
  [FileDentry EXCEPT !.d_fsdata = Some([lease_session |-> 2, lease_gen |-> 0]),
                     !.d_time = 1, !.d_count = 2]

\* the mount of SpecLock: inode 1 is the root directory, inode 2 a file named
\* a in it, whose dentry is a; both sessions are live, session 2 at cap_gen
\* gen2; sizes of directories are their rbytes
LockMount(gen2, a) ==
  /\ ci = [in \in Inodes |-> AllocInode]
  /\ i_fragtree = [in \in Inodes |-> << >>]
  /\ issued = [in \in Inodes |-> {}]
  /\ ilease = [in \in Inodes |-> AllocLease]
  /\ i_count = [in \in Inodes |-> 1]
  /\ icache = [in \in Inodes |-> [vino |-> [ino |-> in, snap |-> CEPH_NOSNAP],
                                   i_state |-> "live"]]
  /\ i_fragtree_mutex = [in \in Inodes |-> FALSE]
  /\ i_mutex = [in \in Inodes |-> FALSE]
  /\ sessions = [s \in Sessions |-> [s_cap_gen |-> IF s = 2 THEN gen2 ELSE 0,
                                     s_cap_ttl |-> 1, s_inode_leases |-> << >>]]
  /\ dentries = [dn \in Dentries |->
                   CASE dn = 1 -> [FreeDentry EXCEPT !.live = TRUE, !.d_parent = 1,
                                                     !.d_name = "/", !.d_inode = 1,
                                                     !.hashed = TRUE, !.d_count = 2]
                     [] dn = 2 -> a
                     [] OTHER -> FreeDentry]
  /\ s_root = 1
  /\ s_dentry_leases = [s \in Sessions |->
                          IF IsSome(a.d_fsdata) /\ a.d_fsdata[1].lease_session = s
                          THEN << 2 >> ELSE << >>]
  /\ req = NoReq
  /\ fault = "none" /\ jiffies = 0 /\ last = NoOp /\ cf = NoChoose
  /\ getter = [p \in Threads |-> IdleGetter]
  /\ run = [p \in Threads |-> IdleRun]
  /\ mount_rbytes = TRUE /\ bucket = NoBucketDir

\* no lease on the file's dentry yet
InitLock == LockMount(0, FileDentry)

\* session 2 was reconnected (its cap_gen incremented) after it had granted
\* the lease on the file's dentry
InitRenewed == LockMount(1, LeasedFileDentry)

\* SpecAttr, two threads on the attributes of the file (inode 2) and the root
\* directory (inode 1): thread 1 assimilates replies, thread 2 makes the
\* system calls and writes; the MDS grants and revokes caps.  The local
\* time_warp_seq may run one ahead of the largest the MDS sends
NextAttr ==
  \/ FillInodeEnter(1, 2, LockFileReply, None)
  \/ FillInodeEnter(1, 1, LockDirReply, Some(CHOOSE d \in RootDirInfos : d.auth = 0))
  \/ FillInodeStep(1)
  \/ /\ ci[2].i_time_warp_seq <= MaxSeq
     /\ SetattrTimeEnter(2, 2, [ia_valid |-> {ATTR_ATIME, ATTR_MTIME}, ia_atime |-> 2,
                                ia_mtime |-> 2], 2)
  \/ SetattrTimeStep(2)
  \/ SetattrSizeEnter(2, 2, 2, 2)
  \/ SetattrSizeStep(2)
  \/ InodeSetSizeEnter(2, 2, 3)
  \/ InodeSetSizeStep(2)
  \/ \E caps \in { {}, {CEPH_CAP_EXCL, CEPH_CAP_WR} } : CapsChange(2, caps)

SpecAttr == InitLock /\ [][NextAttr]_vars

\* SpecLock, two threads on the leases of the file and of its dentry: thread 1
\* handles the replies of the sessions (under their s_mutex), thread 2 asks
\* whether the leases are valid, truncates through the MDS (which hands the
\* inode lease back) and handles the dentry leases of session 2; no session
\* is reconnected meanwhile, so each session's cap_gen stays what it is
NextLock ==
  \/ FillInodeEnter(1, 1, LockDirReply, Some(CHOOSE d \in RootDirInfos : d.auth = 0))
  \/ FillInodeStep(1)
  \/ \E s \in Sessions, ms \in {0, 4} :
       UpdateInodeLeaseEnter(1, 2, s, [mask |-> CEPH_LOCK_ICONTENT, duration_ms |-> ms], 0)
  \/ UpdateInodeLeaseStep(1)
  \/ \E p \in Threads, ms \in {4, 8} :
       UpdateDentryLeaseEnter(p, 2, p, [mask |-> CEPH_LOCK_DN, duration_ms |-> ms], 0, TRUE)
  \/ \E p \in Threads : UpdateDentryLeaseStep(p)
  \/ InodeLeaseValidEnter(2, 2, CEPH_LOCK_ICONTENT)
  \/ InodeLeaseValidStep(2)
  \/ DentryLeaseValidEnter(2, 2)
  \/ DentryLeaseValidStep(2)
  \/ SetattrSizeEnter(2, 2, 2, 2)
  \/ SetattrSizeStep(2)

SpecLock == (InitLock \/ InitRenewed) /\ [][NextLock]_vars

\* SpecTrunc, the pending truncation of the file (inode 2): either thread runs
\* the truncate worker or enters setattr while cap processing queues up to
\* MaxTrunc truncations and the buffered writes come and go
MaxTrunc == 2
NextTrunc ==
  \/ \E p \in Threads : VmtruncateWorkEnter(p, 2)
  \/ \E p \in Threads : VmtruncateWorkStep(p)
  \/ \E p \in Threads : SetattrPendingEnter(p, 2)
  \/ \E p \in Threads : SetattrPendingStep(p)
  \/ \E to \in 0 .. MaxTrunc - 1 : QueueVmtruncate(2, to)
  \/ \E n \in {0, 1} : WrbufferRef(2, n)

SpecTrunc == InitLock /\ [][NextTrunc]_vars

\* SpecRgw, the directory of one bucket: requests to add and to delete the
\* names x and y arrive with epochs up to MaxEpoch, the entry of a request
\* carrying an epoch of its own; reading or writing the object may fail
MaxEpoch == 2
IoOk == [read_rc |-> 0, write_rc |-> 0, junk |-> 0]
RgwIo == { IoOk, [IoOk EXCEPT !.read_rc = -EIO], [IoOk EXCEPT !.write_rc = -EIO],
           [IoOk EXCEPT !.junk = 1] }
RgwRequests ==
  { [ok |-> ok, op |-> op, epoch |-> ep,
     entry |-> rgw_bucket_dir_entry_encode([name |-> n, mtime |-> mt, epoch |-> eep])] :
      ok \in BOOLEAN, op \in {CLS_RGW_OP_ADD, CLS_RGW_OP_DEL}, ep \in 1 .. MaxEpoch,
      n \in {"x", "y"}, mt \in {0, 1}, eep \in 0 .. MaxEpoch }

RgwBucketModify(in, io) ==
  /\ fault = "none"
  /\ \E r \in {rgw_bucket_modify(bucket, in, io)} :
       /\ bucket' = r.obj
       /\ last' = [op |-> "rgw_bucket_modify", res |-> IF r.ret = 0 THEN "ok" ELSE "error",
                    ret |-> r.ret]
  /\ UNCHANGED << dcacheSt, ci, i_fragtree, issued, mount_rbytes, run, fault, ilease, i_count,
                  sessions, jiffies, chooseSt, cacheSt >>

NextRgw == \E in \in RgwRequests, io \in RgwIo : RgwBucketModify(in, io)

SpecRgw == Init /\ [][NextRgw]_vars

\* =================================================================== claims
HasWriteCaps(iss) == iss \cap {CEPH_CAP_EXCL, CEPH_CAP_WR, CEPH_CAP_WRBUFFER} # {}

\* none of ctime, mtime, atime of n is older than it is in c
NoOlder(c, n) ==
  n.i_ctime >= c.i_ctime /\ n.i_mtime >= c.i_mtime /\ n.i_atime >= c.i_atime

\* the reconciler applied to inode in for reply r
Reconciled(in, r) ==
  ceph_fill_file_bits(ci[in], issued[in], r.truncate_seq, r.size, r.time_warp_seq,
                      r.ctime, r.mtime, r.atime)

\* C1: in every step (an MDS reply assimilated under any caps, a local utimes,
\* a cap change) neither i_truncate_seq nor i_time_warp_seq of an inode
\* decreases.
C1_SeqsNeverDecrease ==
  [][\A in \in Inodes :
       /\ ci'[in].i_truncate_seq >= ci[in].i_truncate_seq
       /\ ci'[in].i_time_warp_seq >= ci[in].i_time_warp_seq]_vars

\* a reply was assimilated on an inode whose time_warp_seq a local utimes had
\* pushed past everything the MDS sends, and whose truncate_seq had moved
C1_Witness ==
  /\ last.op = "fill"
  /\ ci[1].i_time_warp_seq = MaxSeq + 1
  /\ ci[1].i_truncate_seq = MaxSeq

\* C2: in every reachable state blocks == ceil(size / 512).
C2_BlocksMatchSize ==
  \A in \in Inodes :
    /\ ci[in].i_blocks * 512 >= ci[in].i_size
    /\ ci[in].i_blocks > 0 => (ci[in].i_blocks - 1) * 512 < ci[in].i_size

\* C3 as stated: a reply whose time_warp_seq is not greater than the inode's
\* leaves none of ctime, mtime, atime older, whatever caps are held.
C3_NoOlderAnyCaps ==
  \A in \in Inodes : \A r \in TimeReplies :
    r.time_warp_seq <= ci[in].i_time_warp_seq => NoOlder(ci[in], Reconciled(in, r))

\* C3 amended: a reply whose time_warp_seq is not greater than the inode's
\* leaves none of ctime, mtime, atime older when EXCL, WR or WRBUFFER is held,
\* and with no write caps when its time_warp_seq is strictly smaller.
C3_NoOlderUnderWriteCaps ==
  \A in \in Inodes : \A r \in TimeReplies :
    ( /\ r.time_warp_seq <= ci[in].i_time_warp_seq
      /\ (HasWriteCaps(issued[in]) \/ r.time_warp_seq < ci[in].i_time_warp_seq) )
    => NoOlder(ci[in], Reconciled(in, r))

\* after a reply, under WR without EXCL, a reply with the same time_warp_seq
\* and an older mtime exists and the reconciler keeps the local mtime
C3_Witness ==
  /\ last.op = "fill"
  /\ CEPH_CAP_WR \in issued[1] /\ CEPH_CAP_EXCL \notin issued[1]
  /\ ci[1].i_mtime = MaxTime
  /\ \E r \in TimeReplies :
       /\ r.time_warp_seq = ci[1].i_time_warp_seq
       /\ r.mtime < ci[1].i_mtime
       /\ Reconciled(1, r).i_mtime = ci[1].i_mtime

\* thread p is inside or back from ceph_get_inode with an inode
Holds(p) == getter[p].pc \in {"new", "wait", "have"}

\* C4: at most one hashed inode per vino; a thread that got an inode from
\* ceph_get_inode has the one of the vino it asked for, referenced; two threads
\* hold the same inode exactly when they asked for equal vinos.
C4_OneRecordPerVino ==
  /\ \A a, b \in Inodes :
       (a # b /\ icache[a].i_state # "free" /\ icache[b].i_state # "free")
       => icache[a].vino # icache[b].vino
  /\ \A p \in Threads :
       Holds(p) => /\ icache[getter[p].in].i_state # "free"
                   /\ icache[getter[p].in].vino = getter[p].vino
                   /\ i_count[getter[p].in] >= 1
  /\ \A p, q \in Threads :
       (Holds(p) /\ Holds(q))
       => ((getter[p].vino = getter[q].vino) <=> (getter[p].in = getter[q].in))

\* both threads hold the one inode of a vino, the second after waiting for the
\* first to finish creating it, while the snapdir vino of the same ino was
\* looked up before and is hashed next to it
C4_Witness ==
  /\ getter[1].pc = "have" /\ getter[2].pc = "have"
  /\ getter[1].vino = getter[2].vino
  /\ getter[1].in = getter[2].in
  /\ i_count[getter[1].in] = 2
  /\ last.res = "woken"
  /\ \E in \in Inodes :
       /\ in # getter[1].in
       /\ icache[in].i_state = "live"
       /\ icache[in].vino.ino = getter[1].vino.ino

\* C5: every node stored in a fragment tree carries a split, an authority or
\* replicas: split_by > 0 or mds >= 0 or ndist > 0.
C5_NodesCarryInfo ==
  \A in \in Inodes : \A f \in DOMAIN i_fragtree[in] :
    \/ i_fragtree[in][f].split_by > 0
    \/ i_fragtree[in][f].mds >= 0
    \/ i_fragtree[in][f].ndist > 0

\* the tree of the running ceph_choose_frag call
ChooseTree == i_fragtree[cf.in]

\* C6: the frag t that ceph_choose_frag returns contains v and is a leaf
\* (absent from the tree, or stored with split_by = 0; found tells which), and
\* every frag passed on the descent from the root is stored as a split node
\* that contains v.
C6_ChooseReturnsLeaf ==
  cf.pc = "out" =>
    /\ frag_contains_value(cf.t, cf.v)
    /\ (cf.t \notin DOMAIN ChooseTree \/ ChooseTree[cf.t].split_by = 0)
    /\ cf.found = (IF cf.t \in DOMAIN ChooseTree THEN 1 ELSE 0)
    /\ \A k \in 1 .. Len(cf.path) :
         /\ cf.path[k] \in DOMAIN ChooseTree
         /\ ChooseTree[cf.path[k]].split_by > 0
         /\ frag_contains_value(cf.path[k], cf.v)

\* a descent through two split nodes has ended at a stored leaf
C6_Witness ==
  /\ cf.pc = "out"
  /\ Len(cf.path) = 2
  /\ cf.t \in DOMAIN ChooseTree
  /\ cf.found = 1

\* the frag the descent reached after passing path[k]
PathNext(k) == IF k < Len(cf.path) THEN cf.path[k + 1] ELSE cf.t

\* C7: ceph_choose_frag terminates.  BUG_ON(i == nway) never fires; at a split
\* node exactly one candidate child contains v; frag_contains_value(t, v) holds
\* at every iteration; every iteration moves t to a frag with more bits below a
\* node stored in the tree, so there are at most as many iterations as nodes;
\* the mutex is held during the call and free after it.
C7_ChooseTerminates ==
  /\ fault = "none"
  /\ cf.pc \in {"loop", "out"} =>
       /\ frag_contains_value(cf.t, cf.v)
       /\ i_fragtree_mutex[cf.in]
       /\ \A k \in 1 .. Len(cf.path) :
            /\ cf.path[k] \in DOMAIN ChooseTree
            /\ frag_bits(cf.path[k]) < frag_bits(PathNext(k))
       /\ Len(cf.path) <= Cardinality(DOMAIN ChooseTree)
  /\ (cf.pc = "loop" /\ cf.t \in DOMAIN ChooseTree /\ ChooseTree[cf.t].split_by > 0) =>
       Cardinality(child_hits(cf.t, ChooseTree[cf.t].split_by, cf.v)) = 1
  /\ cf.pc = "idle" => \A in \in Inodes : ~i_fragtree_mutex[in]

\* a call has returned the absent child it reached through a 2-way split and a
\* 4-way split, and the mutex is free
C7_Witness ==
  /\ last = [op |-> "choose_frag", res |-> "leaf"]
  /\ cf.pc = "idle"
  /\ ~i_fragtree_mutex[cf.in]
  /\ cf.t = frag_make(3, 7)
  /\ frag_make(0, 0) \in DOMAIN ChooseTree /\ ChooseTree[frag_make(0, 0)].split_by = 1
  /\ frag_make(1, 1) \in DOMAIN ChooseTree /\ ChooseTree[frag_make(1, 1)].split_by = 2

\* the inode's lease was recorded under a generation its session has left
StaleLease(in) ==
  /\ ilease[in].i_lease_session # NoSession
  /\ ilease[in].i_lease_gen # sessions[ilease[in].i_lease_session].s_cap_gen

\* C8: while the generation recorded in an inode's lease differs from its
\* session's s_cap_gen, ceph_inode_lease_valid is false for every mask,
\* whatever the two ttls and the issued caps are; and from such a state the
\* lease turns valid only in a step in which update_inode_lease accepts a lease.
C8_StaleGenNeverValid ==
  /\ [](\A in \in Inodes : \A mask \in QueryMasks :
          StaleLease(in) => ~LeaseValidNow(in, mask))
  /\ [][\A in \in Inodes : \A mask \in QueryMasks :
          (StaleLease(in) /\ LeaseValidNow(in, mask)')
          => last' = [op |-> "update_lease", res |-> "accepted"]]_vars

\* ceph_inode_lease_valid has just said no to a lease of a bumped session whose
\* lease ttl and session ttl are in the future, with EXCL issued
C8_Witness ==
  /\ last = [op |-> "lease_valid", res |-> "invalid"]
  /\ StaleLease(1)
  /\ ilease[1].i_lease_mask = CEPH_LOCK_IAUTH
  /\ time_before(jiffies, ilease[1].i_lease_ttl)
  /\ time_before(jiffies, sessions[ilease[1].i_lease_session].s_cap_ttl)
  /\ CEPH_CAP_EXCL \in issued[1]

\* the lease state after update_inode_lease(in, lease, s, from_time) from state x
LeaseAfter(x, in, s, lease, from_time) ==
  apply_update_inode_lease(x.ilease, x.i_count, x.sessions, in, s, lease, from_time)

LeaseNow == [ilease |-> ilease, i_count |-> i_count, sessions |-> sessions]

\* C9: update_inode_lease called a second time with the same inode, lease,
\* session and from_time leaves the lease (ttl, gen, mask, session), the
\* reference count and the session's lease list as the first call left them,
\* and returns the same mask.
C9_UpdateLeaseIdempotent ==
  \A in \in Inodes, s \in Sessions, lease \in Leases, ft \in 0 .. jiffies :
    \E once \in {LeaseAfter(LeaseNow, in, s, lease, ft)} :
      LeaseAfter(once, in, s, lease, ft) = once

\* update_inode_lease has just accepted a lease that took the lease reference
\* on inode 1 and moved it behind inode 2 in the session's list, and the same
\* call made again is accepted and changes nothing
C9_Witness ==
  /\ last = [op |-> "update_lease", res |-> "accepted"]
  /\ i_count[1] = 2
  /\ ilease[1].i_lease_session = 1
  /\ sessions[1].s_inode_leases = << 2, 1 >>
  /\ \E lease \in Leases, ft \in 0 .. jiffies :
       /\ LeaseAfter(LeaseNow, 1, 1, lease, ft).ret # {}
       /\ LeaseAfter(LeaseNow, 1, 1, lease, ft) =
            [ilease |-> ilease, i_count |-> i_count, sessions |-> sessions,
             ret |-> lease.mask]

\* ceph_fill_inode applied to inode in as it is, or as a first call left it
FillOf(c, tree, in, call) ==
  ceph_fill_inode(c, tree, issued[in], call[1], call[2], call[3], mount_rbytes)

\* the second application of call leaves what the first left
SameTwice(in, call) ==
  \E once \in {FillOf(ci[in], i_fragtree[in], in, call)} :
    once.fault = "none" => FillOf(once.c, once.tree, in, call) = once

\* C10 as stated: for every reply, version 0 included, a second application of
\* ceph_fill_inode leaves the inode and its fragment tree as the first left them.
C10_FillTwiceAnyVersion ==
  \A in \in Inodes : \A call \in FillCalls : SameTwice(in, call)

\* C10 amended: for every reply with version > 0, of any type, with or without
\* dirfrag info, whose first application runs into no kernel fault, a second
\* application of ceph_fill_inode (with the same allocation outcomes) leaves
\* the inode, its fragment tree and the return value as the first left them.
C10_FillTwiceVersioned ==
  \A in \in Inodes : \A call \in FillCalls :
    call[1].version > 0 => SameTwice(in, call)

\* a symlink reply has just been applied to an inode, and a directory reply
\* with a version other than the cached one and dirfrag info would change the
\* inode and its tree on its first application
C10_Witness ==
  /\ last = [op |-> "fill", res |-> "ok"]
  /\ IsSome(ci[1].i_symlink)
  /\ \E call \in FillCalls :
       /\ call[1].version > 0 /\ call[1].version # ci[1].i_version
       /\ IsSome(call[2])
       /\ FillOf(ci[1], i_fragtree[1], 1, call).fault = "none"
       /\ FillOf(ci[1], i_fragtree[1], 1, call).c # ci[1]
       /\ FillOf(ci[1], i_fragtree[1], 1, call).tree # i_fragtree[1]

\* ------------------------------------------------------------ trace claims
\* ceph_fill_trace calls with an empty trace, for every caller, session and
\* allocation outcome
EmptyTraces ==
  { Trace(<< >>, << >>, il, NoLease, p) :
      il \in { NoLease, [mask |-> CEPH_LOCK_ICONTENT, duration_ms |-> 4] }, p \in {0, 1} }

\* C11: ceph_fill_trace on a reply with trace_numi == 0 returns 0 and leaves
\* every inode, dentry, lease, session list, reference count and request
\* field (r_last_dentry, r_last_inode, r_old_dentry) as it was before the call
C11_EmptyTraceChangesNothing ==
  \A k \in ReqKinds, rinfo \in EmptyTraces, s \in Sessions, a \in TraceAllocs :
    \A p \in {PrepareReq(World, k)} :
      (fault = "none" /\ req = NoReq /\ IsSome(p)) =>
        ceph_fill_trace(p[1], rinfo, s, a) = [w |-> p[1], err |-> 0]

\* an empty reply came for a lookup whose caller holds a new dentry, on a
\* mount that has the root and a bound name cached
C11_Witness ==
  /\ last.op = "fill_trace" /\ last.res = "empty"
  /\ req.r_last_dentry # NoDentry
  /\ \E dn \in Dentries : dentries[dn].hashed /\ dentries[dn].d_inode # 0

\* the dentry a lookup of the path names from the root reaches in world w
RECURSIVE PathFrom(_, _, _)
PathFrom(w, dn, names) ==
  IF names = << >> \/ dn = NoDentry THEN dn
  ELSE PathFrom(w, d_lookup(w, dn, Head(names)).dn, Tail(names))

PathDentry(w, names) == PathFrom(w, w.s_root, names)

\* a lookup of the path reaches a dentry bound to an inode
Positive(w, names) ==
  PathDentry(w, names) # NoDentry /\ w.dentries[PathDentry(w, names)].d_inode # 0

Range(f) == { f[k] : k \in DOMAIN f }

\* replies whose trace ends in a null dentry, one or two names below the root
NullTraces ==
  { Trace(sh[1], sh[2], NoLease, dl, 0) :
      sh \in { << << 1 >>, << "a" >> >>, << << 1, 2 >>, << "a", "b" >> >> },
      dl \in { NoLease, DnLease } }

\* the callers and allocation outcomes the replies are tried with
NullKinds ==
  { k \in ReqKinds : k.started = 0 /\ k.name = "a"
                      /\ k.kind \in {"none", "new", "cached", "cached_nolock"} }
NullAllocs ==
  { TraceAllocOk, [TraceAllocOk EXCEPT !.inode_ok = FALSE],
    [TraceAllocOk EXCEPT !.dentry_ok = FALSE] }

\* C12 as stated: for every reply whose trace ends in a null dentry naming
\* (parent, name), a dentry of (parent, name) bound to an inode before
\* ceph_fill_trace is not bound after it: no lookup of the name reaches a
\* dentry bound to an inode
C12_NullDentryUnbinds ==
  \A k \in NullKinds, rinfo \in NullTraces, s \in Sessions, a \in NullAllocs :
    \A p \in {PrepareReq(World, k)} :
      (fault = "none" /\ req = NoReq /\ IsSome(p)
         /\ Positive(p[1], rinfo.trace_dname)) =>
        ~Positive(ceph_fill_trace(p[1], rinfo, s, a).w, rinfo.trace_dname)

\* C12 amended: the binding is gone whenever the walk looks the name up,
\* which it does with the parent's i_mutex taken or held by the request, after
\* every position before it succeeded
C12_NullDentryUnbindsUnderMutex ==
  \A k \in NullKinds, rinfo \in NullTraces, s \in Sessions, a \in NullAllocs :
    \A p \in {PrepareReq(World, k)} :
      (fault = "none" /\ req = NoReq /\ IsSome(p)
         /\ Positive(p[1], rinfo.trace_dname)) =>
        \A r \in {ceph_fill_trace(p[1], rinfo, s, a)} :
          << "lookup", rinfo.trace_numd - 1 >> \in Range(r.w.ev) =>
            ~Positive(r.w, rinfo.trace_dname)

\* a null-dentry reply found the name bound, deleted the binding, looked the
\* name up again and left it unbound
C12_Witness ==
  /\ last.op = "fill_trace" /\ fault = "none"
  /\ << "retry", 0 >> \in Range(last.ev) /\ << "null", 0 >> \in Range(last.ev)
  /\ ~Positive(World, << "a" >>)

\* replies whose trace ends in an inode, one or two names below the root
PositiveTraces ==
  { Trace(sh[1], sh[2], NoLease, dl, 0) :
      sh \in { << << 1, 2 >>, << "a" >> >>, << << 1, 3 >>, << "a" >> >>,
               << << 1, 2 >>, << "b" >> >>,
               << << 1, 2, 3 >>, << "a", "b" >> >>, << << 1, 3, 2 >>, << "a", "b" >> >> },
      dl \in { NoLease, DnLease } }

\* the callers the replies are tried with
SomeKinds == { k \in ReqKinds : k.started = 0 /\ k.name = "a" }

\* the reply fits the request: the reply to a rename names the new name
Fits(k, rinfo) ==
  k.kind = "rename" => rinfo.trace_dname = << OtherName(k.name) >>

\* a lookup of the path in world w reaches a dentry bound to the inode vino
BoundTo(w, names, vino) ==
  Positive(w, names) /\ w.icache[w.dentries[PathDentry(w, names)].d_inode].vino = vino

\* C13: when ceph_fill_trace or ceph_readdir_prepopulate finds the dentry of
\* (parent, name) bound to an inode whose vino is not the reply's vino for
\* that name, it deletes the binding, and once the operation has completed
\* successfully (it returns 0) a lookup of (parent, name) yields a dentry
\* bound to the inode with exactly the reply's vino
C13_StaleDentryRebound ==
  /\ \A k \in SomeKinds, rinfo \in PositiveTraces, a \in TraceAllocs :
       \A p \in {PrepareReq(World, k)} :
         (fault = "none" /\ req = NoReq /\ IsSome(p) /\ Fits(k, rinfo)) =>
           \A r \in {ceph_fill_trace(p[1], rinfo, 1, a)} :
             \A d \in 0 .. rinfo.trace_numd - 1 :
               (<< "retry", d >> \in Range(r.w.ev) /\ r.err = 0 /\ r.w.fault = "none") =>
                 BoundTo(r.w, SubSeq(rinfo.trace_dname, 1, d + 1),
                         rinfo.trace_in[d + 2].vino)
  /\ \A rinfo \in ReaddirReplies, a \in TraceAllocs :
       (fault = "none" /\ req = NoReq /\ s_root # NoDentry) =>
         \A r \in {ceph_readdir_prepopulate(ReaddirReq(World), rinfo, 1, a)} :
           \A i \in 1 .. Len(rinfo.entries) :
             (<< "retry", rinfo.entries[i].name >> \in Range(r.w.ev)
                /\ r.err = 0 /\ r.w.fault = "none" /\ ~rinfo.lssnap) =>
               BoundTo(r.w, << rinfo.entries[i].name >>, rinfo.entries[i].in.vino)

\* full positive traces with every dentry lease an MDS may send along: none,
\* and a DN lease of 0, 4 or 8 ms
FullTraces ==
  { Trace(sh[1], sh[2], NoLease, dl, 0) :
      sh \in { << << 1, 2 >>, << "a" >> >>, << << 1, 3 >>, << "a" >> >>,
               << << 1, 2, 3 >>, << "a", "b" >> >> },
      dl \in { NoLease } \cup { [mask |-> CEPH_LOCK_DN, duration_ms |-> ms] :
                                  ms \in {0, 4, 8} } }

\* the callers of C14: every kind, and requests started at tick 0 and 1
FullKinds == SomeKinds \cup { k \in ReqKinds : k.kind = "none" }

\* no other thread holds a directory mutex, and the slabs have room for
\* every inode and dentry of the trace
RoomFor(w, rinfo) ==
  /\ \A in \in DOMAIN w.i_mutex : ~w.i_mutex[in]
  /\ Cardinality({ dn \in DOMAIN w.dentries : ~w.dentries[dn].live }) >= rinfo.trace_numd
  /\ Cardinality({ in \in DOMAIN w.icache : w.icache[in].i_state = "free" })
       >= Cardinality({ k \in 1 .. rinfo.trace_numi :
                          \A in \in DOMAIN w.icache :
                            w.icache[in].i_state = "free"
                            \/ w.icache[in].vino # rinfo.trace_in[k].vino })

\* every name of the trace is bound to the inode the reply names for it, and
\* every inode of the trace is cached
TraceInstalled(w, rinfo) ==
  /\ \A d \in 0 .. rinfo.trace_numd - 1 :
       BoundTo(w, SubSeq(rinfo.trace_dname, 1, d + 1), rinfo.trace_in[d + 2].vino)
  /\ \A k \in 1 .. rinfo.trace_numi :
       \E in \in DOMAIN w.icache :
         w.icache[in].i_state = "live" /\ w.icache[in].vino = rinfo.trace_in[k].vino

\* the dentry of position d carries the lease time of the reply
LeaseInstalled(w, rinfo, d) ==
  w.dentries[PathDentry(w, SubSeq(rinfo.trace_dname, 1, d + 1))].d_time
    = lease_ttl(w.req.r_request_started, rinfo.trace_dlease[d + 1].duration_ms)

\* the dentry of position d kept the lease it had: its lease record belongs
\* to another session, or to session s at its cap_gen with a later lease time
LeaseKept(w, rinfo, s, d) ==
  LET dn == PathDentry(w, SubSeq(rinfo.trace_dname, 1, d + 1))
      ttl == lease_ttl(w.req.r_request_started, rinfo.trace_dlease[d + 1].duration_ms)
  IN /\ IsSome(w.dentries[dn].d_fsdata)
     /\ \/ w.dentries[dn].d_fsdata[1].lease_session # s
        \/ /\ w.dentries[dn].d_time # 0
           /\ w.dentries[dn].d_fsdata[1].lease_gen = w.sessions[s].s_cap_gen
           /\ time_before(ttl, w.dentries[dn].d_time)

\* C14 as stated: for a reply with a full positive trace starting at the
\* known root, with every parent directory mutex available and no allocation
\* failure, after ceph_fill_trace every name is a positive dentry bound to the
\* reply's inode, every trace inode is cached, and every dentry whose reply
\* lease mask includes DN has lease ttl = req_started + duration_ms * HZ / 1000
C14_FullTraceInstalled ==
  \A k \in FullKinds, rinfo \in FullTraces, s \in Sessions :
    \A p \in {PrepareReq(World, k)} :
      (fault = "none" /\ req = NoReq /\ IsSome(p) /\ Fits(k, rinfo)
         /\ s_root # NoDentry /\ RoomFor(p[1], rinfo)) =>
        \A r \in {ceph_fill_trace(p[1], rinfo, s, TraceAllocOk)} :
          /\ TraceInstalled(r.w, rinfo)
          /\ \A d \in 0 .. rinfo.trace_numd - 1 :
               rinfo.trace_dlease[d + 1].mask \cap CEPH_LOCK_DN # {} =>
                 LeaseInstalled(r.w, rinfo, d)

\* C14 amended: when the call returns 0 without a kernel fault the names and
\* the inodes are installed, and a dentry whose reply lease mask includes DN
\* has the reply's lease time unless its lease record belongs to another
\* session or holds a later lease of the same session and cap_gen
C14_FullTraceInstalledLeaseKept ==
  \A k \in FullKinds, rinfo \in FullTraces, s \in Sessions :
    \A p \in {PrepareReq(World, k)} :
      (fault = "none" /\ req = NoReq /\ IsSome(p) /\ Fits(k, rinfo)
         /\ s_root # NoDentry /\ RoomFor(p[1], rinfo)) =>
        \A r \in {ceph_fill_trace(p[1], rinfo, s, TraceAllocOk)} :
          (r.err = 0 /\ r.w.fault = "none") =>
            /\ TraceInstalled(r.w, rinfo)
            /\ \A d \in 0 .. rinfo.trace_numd - 1 :
                 (rinfo.trace_dlease[d + 1].mask \cap CEPH_LOCK_DN # {}
                    /\ ~LeaseKept(r.w, rinfo, s, d)) =>
                   LeaseInstalled(r.w, rinfo, d)

\* a two-name trace with DN leases was installed: both names are bound and
\* carry the lease time, and the three inodes are cached
C14_Witness ==
  /\ last.op = "fill_trace" /\ last.res = "ok" /\ fault = "none"
  /\ BoundTo(World, << "a" >>, [ino |-> 2, snap |-> CEPH_NOSNAP])
  /\ BoundTo(World, << "a", "b" >>, [ino |-> 3, snap |-> CEPH_NOSNAP])
  /\ dentries[PathDentry(World, << "a" >>)].d_time = lease_ttl(0, 4)
  /\ dentries[PathDentry(World, << "a", "b" >>)].d_time = lease_ttl(0, 4)
  /\ IsSome(dentries[PathDentry(World, << "a", "b" >>)].d_fsdata)

\* the inode fields c with the blob cached as its xattrs
WithBlob(c, blob) == [c EXCEPT !.i_xattr_len = Len(blob), !.i_xattr_data = Some(blob)]

\* the getxattr contract for a value val and a buffer of size bytes: the
\* length alone for size 0, Range for a buffer too small, else the length
\* with the value copied to the start of the buffer
SizeContract(r, val, size) ==
  IF size = 0 THEN r.ret = Len(val) /\ Written(r.buf) = {}
  ELSE IF size < Len(val) THEN r.ret = -ERANGE /\ Written(r.buf) = {}
  ELSE r.ret = Len(val) /\ SubSeq(r.buf, 1, Len(val)) = val

\* the contract holds for every xattr stored in the blob of the inode fields c
StoredContract(c) ==
  \A list \in XattrLists : \A e \in 1 .. Len(list) :
    \A size \in 0 .. Len(list[e].val) + 1 :
      SizeContract(ceph_getxattr(WithBlob(c, ceph_encode_xattrs(list)), 0,
                                 list[e].name, size, NewBuf(size), << >>),
                   list[e].val, size)

\* the contract holds for every virtual xattr of the inode fields c
VirtualContract(c) ==
  \A i \in 1 .. Len(_ceph_vir_xattr_recs) :
    \A val \in {_ceph_vir_xattrcb(c, _ceph_vir_xattr_recs[i].cb)} :
      \A size \in 0 .. Len(val) + 1 :
        SizeContract(ceph_getxattr(c, 0, _ceph_vir_xattr_recs[i].name, size,
                                   NewBuf(size), << >>),
                     val, size)

\* C15: for every xattr name, stored in the blob or virtual, whose value has
\* length len, ceph_getxattr with size 0 returns len without writing, with
\* 0 < size < len returns -ERANGE without writing, and with size >= len
\* returns len and copies exactly the value
C15_GetxattrSizeContract ==
  fault = "none" => StoredContract(ci[1]) /\ VirtualContract(ci[1])

\* the offset in ceph_encode_xattrs(list) at which entry e ends
RECURSIVE EntryEnd(_, _)
EntryEnd(list, e) ==
  IF e = 0 THEN 4
  ELSE EntryEnd(list, e - 1) + 8 + Len(list[e].name) + Len(list[e].val)

\* the entries of list that carry name
EntriesOf(list, name) == { e \in 1 .. Len(list) : list[e].name = name }

\* what may lie in the heap behind a blob cut off at cut: the rest of the
\* blob it was cut from, or other bytes
Beyonds(blob, cut) ==
  { SubSeq(blob, cut + 1, Len(blob)), << 0, 0, 0, 0 >>, << 255, 255, 255, 255 >> }

\* the largest buffer handed to getxattr here
BigSize == 2

\* what ceph_getxattr is to answer for name on the first cut bytes of the
\* encoding of list: the value when the entry lies before the cut, NoData for
\* a whole blob without the name, IO otherwise; and no byte past the cut read
TruncatedAnswer(r, list, cut, name) ==
  LET es == EntriesOf(list, name)
  IN /\ ~r.over
     /\ IF es # {} /\ cut >= EntryEnd(list, LowestOf(es))
        THEN /\ r.ret = Len(list[LowestOf(es)].val)
             /\ SubSeq(r.buf, 1, r.ret) = list[LowestOf(es)].val
        ELSE IF cut = Len(ceph_encode_xattrs(list)) THEN r.ret = -ENODATA
        ELSE r.ret = -EIO

\* C16: for every well-formed xattr blob and every truncation of it,
\* ceph_getxattr on a non-virtual name returns the stored value, NoData when
\* the name is absent from a well-formed blob, and IO when the truncation
\* comes before the end of the matching entry; it never reads past the end
C16_GetxattrTruncatedBlob ==
  fault = "none" =>
    \A list \in XattrLists, name \in {NameA, NameB} :
      \A blob \in {ceph_encode_xattrs(list)} :
        \A cut \in 1 .. Len(blob) : \A beyond \in Beyonds(blob, cut) :
          TruncatedAnswer(ceph_getxattr(WithBlob(ci[1], SubSeq(blob, 1, cut)), 0, name,
                                        BigSize, NewBuf(BigSize), beyond),
                          list, cut, name)

\* the names of list from entry i on, each followed by NUL
RECURSIVE NamesOf(_, _)
NamesOf(list, i) ==
  IF i > Len(list) THEN << >>
  ELSE list[i].name \o << NUL >> \o NamesOf(list, i + 1)

\* the virtual names from record i on in table order, each followed by NUL
RECURSIVE VirNamesOf(_)
VirNamesOf(i) ==
  IF i > Len(_ceph_vir_xattr_recs) THEN << >>
  ELSE _ceph_vir_xattr_recs[i].name \o << NUL >> \o VirNamesOf(i + 1)

\* the listing of an inode of type mode with the xattrs of list
Listing(mode, list) ==
  NamesOf(list, 1) \o (IF mode = S_IFDIR THEN VirNamesOf(1) ELSE << >>)

\* the inodes listed: the fields c with no blob cached and with the encoding
\* of every list
ListCases(c) ==
  { [c |-> [c EXCEPT !.i_xattr_len = 0, !.i_xattr_data = None], list |-> << >>] }
  \cup { [c |-> WithBlob(c, ceph_encode_xattrs(list)), list |-> list] :
          list \in XattrLists }

\* buffer sizes around need
ListSizes(need) == { sz \in {0, 1, need - 1, need, need + 1} : sz >= 0 }

\* the listxattr contract for a listing of need bytes; exact: every byte
\* written belongs to the listing
ListContract(r, listing, size, exact) ==
  LET need == Len(listing)
  IN IF size = 0 THEN r.ret = need /\ Written(r.buf) = {}
     ELSE IF size < need THEN r.ret = -ERANGE /\ Written(r.buf) = {}
     ELSE /\ r.ret = need
          /\ SubSeq(r.buf, 1, need) = listing
          /\ \/ Written(r.buf) = 1 .. need
             \/ ~exact /\ need = 0 /\ Written(r.buf) = {1} /\ r.buf[1] = NUL

\* C17 as stated: ceph_listxattr on a directory measures and lists the real
\* names and then the virtual names in table order, each followed by NUL:
\* need for size 0, -ERANGE for 0 < size < need, else need with exactly need
\* bytes written; for a non-directory the virtual names are left out
C17_ListxattrContract ==
  fault = "none" =>
    \A x \in ListCases(ci[1]) :
      \A listing \in {Listing(x.c.i_mode, x.list)} :
        \A size \in ListSizes(Len(listing)) :
          ListContract(ceph_listxattr(x.c, 0, size, NewBuf(size)), listing, size, TRUE)

\* C17 amended: as stated, except that an inode with no blob cached gets a
\* NUL stored at names[0] first, which for a non-directory is one byte
\* written although need is 0
C17_ListxattrContractNulByte ==
  fault = "none" =>
    \A x \in ListCases(ci[1]) :
      \A listing \in {Listing(x.c.i_mode, x.list)} :
        \A size \in ListSizes(Len(listing)) :
          ListContract(ceph_listxattr(x.c, 0, size, NewBuf(size)), listing, size,
                       x.c.i_xattr_len # 0 \/ x.c.i_mode = S_IFDIR)

\* a directory with user.a cached was listed into a large buffer: the real
\* name and the eight virtual names came back
C17_Witness ==
  /\ last.op = "listxattr" /\ last.size = 200
  /\ ci[1].i_mode = S_IFDIR /\ ci[1].i_xattr_len # 0
  /\ last.ret = Len(NameA) + 1 + VirNamesLen
  /\ SubSeq(last.buf, 1, last.ret) = NameA \o << NUL >> \o VirNamesOf(1)

\* every combination of attributes a setattr call may carry
AllAttrs ==
  { [ia_valid |-> v, ia_atime |-> 0, ia_mtime |-> 1, ia_size |-> sz, ia_ctime |-> 0] :
      v \in SUBSET {"UID", "MODE", ATTR_MTIME, "SIZE", "FILE"}, sz \in {0, 1} }

\* the call answered -EROFS and left the state st as it was: no truncation
\* applied, no lease released, no request sent, no inode field changed
RefusedReadOnly(r, st) == r.err = -EROFS /\ r.st = st

\* C18: ceph_setattr, ceph_setxattr and ceph_removexattr on an inode whose
\* snap is not NOSNAP return -EROFS for every argument before any other
\* effect: no MDS request, no lease release, no pending truncate applied, no
\* inode field changed
C18_SnapshotWritesRefused ==
  fault = "none" =>
    \A in \in Inodes : \A snap \in {icache[in].vino.snap} :
      snap # CEPH_NOSNAP =>
        \A a \in ReqFails :
          /\ \A attr \in AllAttrs :
               RefusedReadOnly(ceph_setattr(XState, in, snap, issued[in], attr, 0,
                                            jiffies, a), XState)
          /\ \A name \in SetNames :
               /\ \A size \in SetSizes :
                    RefusedReadOnly(ceph_setxattr(XState, in, snap, name, size, a), XState)
               /\ RefusedReadOnly(ceph_removexattr(XState, in, snap, name, a), XState)

\* setattr was refused on the snapshot inode while it had a truncation
\* pending and held a lease: both are still there and nothing went out
C18_Witness ==
  /\ last.op = "setattr" /\ last.ret = -EROFS /\ last.ev = << >>
  /\ icache[2].vino.snap # CEPH_NOSNAP
  /\ ci[2].i_vmtruncate_to = 0
  /\ ilease[2].i_lease_mask = CEPH_LOCK_IXATTR

\* the names tried: the set names, user.b and every virtual name
GuardNames ==
  SetNames \cup {NameB}
    \cup { _ceph_vir_xattr_recs[i].name : i \in 1 .. Len(_ceph_vir_xattr_recs) }

\* name is one ceph_setxattr and ceph_removexattr must refuse
Unsettable(name) ==
  \/ Len(name) < Len(UserPrefix)
  \/ \E i \in 1 .. Len(UserPrefix) : name[i] # UserPrefix[i]
  \/ \E i \in 1 .. Len(_ceph_vir_xattr_recs) : _ceph_vir_xattr_recs[i].name = name

\* every request on the trail of r comes after the release of the IXATTR
\* lease of inode in, and the lease is gone
ReleasedBeforeRequest(r, in) ==
  \A i \in 1 .. Len(r.st.ev) :
    r.st.ev[i][1] = "request" =>
      /\ \E j \in 1 .. i - 1 : r.st.ev[j] = << "release", in, CEPH_LOCK_IXATTR >>
      /\ r.st.ilease[in].i_lease_mask \cap CEPH_LOCK_IXATTR = {}

\* C19: on a live inode ceph_setxattr and ceph_removexattr return -EOPNOTSUPP
\* for every name that does not begin with "user." and for every virtual
\* name, without an MDS request or a lease release; for every other name the
\* IXATTR lease is released before the MDS request is dispatched
C19_XattrWritesGuarded ==
  fault = "none" =>
    \A in \in Inodes : \A snap \in {icache[in].vino.snap} :
      snap = CEPH_NOSNAP =>
        \A a \in ReqFails, name \in GuardNames :
          \A r \in { ceph_setxattr(XState, in, snap, name, size, a) : size \in SetSizes }
                    \cup { ceph_removexattr(XState, in, snap, name, a) } :
            IF Unsettable(name)
            THEN r.err = -EOPNOTSUPP /\ r.st = XState
            ELSE ReleasedBeforeRequest(r, in)

\* setxattr of user.a went to the MDS from an inode that held an IXATTR
\* lease: the lease was released, then the request dispatched
C19_Witness ==
  /\ last.op = "setxattr" /\ last.ret = 0
  /\ last.ev = << << "pages", 1 >>, << "release", 1, CEPH_LOCK_IXATTR >>,
                  << "request", "LSETXATTR" >>, << "free", 1 >> >>
  /\ ilease[1].i_lease_ttl # 0
  /\ ilease[1].i_lease_session = NoSession

\* item is the tail of list
AtTail(list, item) == Len(list) > 0 /\ list[Len(list)] = item

\* the inode leases an MDS grants here
GrantedLeases ==
  { [mask |-> m, duration_ms |-> ms] : m \in {CEPH_LOCK_IAUTH, CEPH_LOCK_ICONTENT},
                                       ms \in {0, 4} }

\* C20: after any sequence of inode-lease and dentry-lease creations and
\* renewals on a session, each of the session's lists is ordered by last
\* touch: the lease created or renewed last is at the tail.  Checked on the
\* lease touched last: the inode whose lease update_inode_lease accepted, and
\* the dentry of the last name of a trace whose DN lease ceph_fill_trace
\* installed
C20_LeaseListsByLastTouch ==
  /\ \A in \in DOMAIN ilease, s \in Sessions, lease \in GrantedLeases :
       \A u \in {apply_update_inode_lease(ilease, i_count, sessions, in, s, lease, 0)} :
         u.ret # {} => AtTail(u.sessions[s].s_inode_leases, in)
  /\ \A k \in FullKinds, rinfo \in FullTraces, s \in Sessions :
       \A p \in {PrepareReq(World, k)} :
         (fault = "none" /\ req = NoReq /\ IsSome(p) /\ Fits(k, rinfo)
            /\ s_root # NoDentry /\ RoomFor(p[1], rinfo)) =>
           \A r \in {ceph_fill_trace(p[1], rinfo, s, TraceAllocOk)} :
             \A d \in {rinfo.trace_numd - 1} :
               (r.err = 0 /\ r.w.fault = "none"
                  /\ rinfo.trace_dlease[d + 1].mask \cap CEPH_LOCK_DN # {}
                  /\ ~LeaseKept(r.w, rinfo, s, d)) =>
                 AtTail(r.w.s_dentry_leases[s],
                        PathDentry(r.w, SubSeq(rinfo.trace_dname, 1, d + 1)))

\* C21: over any sequence of ceph_fill_inode calls on one inode, with replies
\* carrying versions in any order, the cached MDS version i_version never
\* decreases.
C21_VersionNeverDecreases ==
  [][\A in \in Inodes : ci'[in].i_version >= ci[in].i_version]_vars

\* the four fields the size half of the reconciler writes
SizeFields(c) == << c.i_size, c.i_blocks, c.i_reported_size, c.i_truncate_seq >>

\* b is ceil(size / 512)
CeilBlocks(b, size) == b * 512 >= size /\ (b > 0 => (b - 1) * 512 < size)

\* C22: for every set of held caps (EXCL included) the reconciler takes the
\* reported size (size, blocks = ceil(size / 512), reported_size) and
\* truncate_seq exactly when the reported truncate_seq is greater than the
\* inode's, or equal with the reported size greater than the local size; in
\* every other case size, blocks, reported_size and truncate_seq are unchanged.
C22_SizeTakenOnNewerTruncate ==
  \A in \in Inodes : \A r \in SizeReplies : \A iss \in CapSets :
    \E c \in {ci[in]} :
    \E n \in {ceph_fill_file_bits(c, iss, r.truncate_seq, r.size, r.time_warp_seq,
                                  r.ctime, r.mtime, r.atime)} :
      IF r.truncate_seq > c.i_truncate_seq
         \/ (r.truncate_seq = c.i_truncate_seq /\ r.size > c.i_size)
      THEN /\ n.i_size = r.size /\ CeilBlocks(n.i_blocks, r.size)
           /\ n.i_reported_size = r.size /\ n.i_truncate_seq = r.truncate_seq
      ELSE SizeFields(n) = SizeFields(c)

\* a reply was assimilated while EXCL is held; the inode has size 512 at
\* truncate_seq 1, so that replies with an equal truncate_seq and a smaller
\* size, with an equal truncate_seq and a greater size, and with a smaller
\* truncate_seq all exist
C22_Witness ==
  /\ last.op = "fill"
  /\ CEPH_CAP_EXCL \in issued[1]
  /\ ci[1].i_truncate_seq = 1 /\ ci[1].i_size = 512
  /\ \E r \in SizeReplies : r.truncate_seq = 1 /\ r.size < 512
  /\ \E r \in SizeReplies : r.truncate_seq = 1 /\ r.size > 512
  /\ \E r \in SizeReplies : r.truncate_seq < 1

\* replies whose time_warp_seq runs from 0 to one past the largest the inode
\* reaches by replies, with every timestamp triple
WarpReplies ==
  { [BaseReply EXCEPT !.time_warp_seq = tw, !.ctime = tt[1], !.mtime = tt[2],
                      !.atime = tt[3]] : tw \in 0 .. MaxSeq + 1, tt \in TimeTriples }

\* the cap sets with WR or WRBUFFER and without EXCL
WrCapSets ==
  { iss \in CapSets : iss \cap {CEPH_CAP_WR, CEPH_CAP_WRBUFFER} # {}
                      /\ CEPH_CAP_EXCL \notin iss }

\* the later of a local and a reported time
Newer(local, reported) == IF reported > local THEN reported ELSE local

\* C23: when the held caps include WR or WRBUFFER but not EXCL: a reply with a
\* greater time_warp_seq replaces ctime, mtime and atime by the MDS values and
\* raises time_warp_seq to the reported one; with an equal time_warp_seq each
\* of ctime, mtime, atime is replaced only by a strictly newer MDS value; with
\* a smaller one time_warp_seq and the three timestamps are unchanged.
C23_TimesUnderWriteCaps ==
  \A in \in Inodes : \A r \in WarpReplies : \A iss \in WrCapSets :
    \E c \in {ci[in]} :
    \E n \in {ceph_fill_file_bits(c, iss, r.truncate_seq, r.size, r.time_warp_seq,
                                  r.ctime, r.mtime, r.atime)} :
      CASE r.time_warp_seq > c.i_time_warp_seq ->
             /\ << n.i_ctime, n.i_mtime, n.i_atime >> = << r.ctime, r.mtime, r.atime >>
             /\ n.i_time_warp_seq = r.time_warp_seq
        [] r.time_warp_seq = c.i_time_warp_seq ->
             /\ n.i_ctime = Newer(c.i_ctime, r.ctime)
             /\ n.i_mtime = Newer(c.i_mtime, r.mtime)
             /\ n.i_atime = Newer(c.i_atime, r.atime)
             /\ n.i_time_warp_seq = c.i_time_warp_seq
        [] OTHER ->
             << n.i_ctime, n.i_mtime, n.i_atime, n.i_time_warp_seq >>
               = << c.i_ctime, c.i_mtime, c.i_atime, c.i_time_warp_seq >>

\* a reply was assimilated under WR without EXCL; the inode has mtime T at
\* time_warp_seq 1, and replies with a smaller, an equal (with mtime T - 1)
\* and a greater time_warp_seq all exist
C23_Witness ==
  /\ last.op = "fill"
  /\ issued[1] \in WrCapSets
  /\ ci[1].i_time_warp_seq = 1 /\ ci[1].i_mtime = MaxTime
  /\ \E r \in WarpReplies : r.time_warp_seq = 1 /\ r.mtime = MaxTime - 1
  /\ \E r \in WarpReplies : r.time_warp_seq < 1 /\ r.mtime # MaxTime
  /\ \E r \in WarpReplies : r.time_warp_seq > 1 /\ r.mtime # MaxTime

\* the attribute state of an inode: size, blocks, the three times, the two
\* sequence numbers and the reported size
AttrState(c) ==
  << c.i_size, c.i_blocks, c.i_ctime, c.i_mtime, c.i_atime, c.i_time_warp_seq,
     c.i_truncate_seq, c.i_reported_size >>

\* thread p makes the step
Acts(p) == run'[p].op # run[p].op \/ run'[p].pc # run[p].pc

\* C24: every write to one inode's attribute state (size, blocks, ctime, mtime,
\* atime, time_warp_seq, truncate_seq, reported_size) by fill-inode, the
\* reconciler, set_size, local utimes and local truncate is made by a thread
\* that holds that inode's spinlock.
C24_AttrWritesUnderSpinlock ==
  [][\A in \in Inodes :
       AttrState(ci'[in]) # AttrState(ci[in]) =>
         \E p \in Threads : Acts(p) /\ ILock(in) \in HeldIn(run[p])]_vars

\* the locks thread p takes in the step
Takes(p) == HeldIn(run'[p]) \ HeldIn(run[p])

\* the kinds of the locks thread p holds before the step
HeldKinds(p) == { l[1] : l \in HeldIn(run[p]) }

\* C25: every thread takes locks in the order session cap_lock, inode
\* spinlock, dentry spinlock (the session cap_lock is never taken while an
\* inode or dentry spinlock is held), and takes no lock while it holds a
\* fragtree mutex.
C25_LockOrder ==
  [][\A p \in Threads : \A l \in Takes(p) :
       /\ "i_fragtree_mutex" \notin HeldKinds(p)
       /\ l[1] = "s_cap_lock" => HeldKinds(p) \cap {"i_lock", "d_lock"} = {}
       /\ l[1] = "i_lock" => "d_lock" \notin HeldKinds(p)]_vars

\* the threads between the spin_unlock of a lease update that made a new
\* record and the reference it is about to take
PendingIgrab(in) ==
  { p \in Threads : run[p].op = "update_inode_lease" /\ run[p].pc = "igrab"
                    /\ run[p].a.in = in }
PendingDget(dn) ==
  { p \in Threads : run[p].op = "update_dentry_lease" /\ run[p].pc = "dget"
                    /\ run[p].a.dn = dn }

\* the references held on inode in and on dentry dn for other reasons than a
\* lease: the caller's on each inode, the mount's and the child's on the
\* root dentry, the caller's on dentry 2
OtherIrefs(in) == 1
OtherDrefs(dn) == CASE dn = 1 -> 2 [] dn = 2 -> 1 [] OTHER -> 0

\* C26: the host reference taken on behalf of a lease is taken exactly once
\* per lease record: an inode carries one reference for its bound lease
\* session and a dentry one for its lease record, whatever renewals, rejected
\* updates and lost allocation races happened; a thread that made the record
\* and has not yet reached igrab / dget still owes it.
C26_OneReferencePerLeaseRecord ==
  /\ \A in \in Inodes :
       i_count[in] + Cardinality(PendingIgrab(in)) =
         OtherIrefs(in) + (IF ilease[in].i_lease_session # NoSession THEN 1 ELSE 0)
  /\ \A dn \in Dentries :
       dentries[dn].d_count + Cardinality(PendingDget(dn)) =
         OtherDrefs(dn) + (IF IsSome(dentries[dn].d_fsdata) THEN 1 ELSE 0)

\* a thread lost the allocation race of update_dentry_lease: it found the
\* record another thread had made meanwhile and took no reference, after the
\* winner took its one; the inode's lease was renewed by its session
C26_Witness ==
  /\ last = [op |-> "update_dentry_lease", res |-> "new"]
  /\ \A p \in Threads : run[p].op = "idle"
  /\ IsSome(dentries[2].d_fsdata) /\ dentries[2].d_count = 2
  /\ ilease[2].i_lease_session = 1 /\ i_count[2] = 2
  /\ sessions[1].s_inode_leases = << 2 >>

\* the accept condition of update_inode_lease on inode in for a lease of
\* session s expiring at ttl
LeaseAccepted(in, s, lease, ttl) ==
  /\ lease.mask # {}
  /\ \/ ilease[in].i_lease_ttl = 0
     \/ ~time_before(ttl, ilease[in].i_lease_ttl)
     \/ ilease[in].i_lease_gen # sessions[s].s_cap_gen
  /\ ilease[in].i_lease_session \in {NoSession, s}

\* C27: update_inode_lease with a non-empty mask accepts the lease exactly
\* when (the inode has no ttl, or the new ttl is not before the held one, or
\* the recorded gen differs from the session's cap_gen) and (the inode has no
\* lease session or it is the calling session); accepting, it writes ttl, gen
\* and mask and returns the mask; otherwise, and for an empty mask, it
\* returns 0 and leaves ttl, gen, mask, lease session, the session lists and
\* the reference count as they were.
C27_LeaseAcceptCondition ==
  \A in \in Inodes, s \in Sessions, lease \in Leases, ft \in 0 .. jiffies :
    \E u \in {LeaseAfter(LeaseNow, in, s, lease, ft)},
       ttl \in {ft + (lease.duration_ms * HZ) \div 1000} :
      IF LeaseAccepted(in, s, lease, ttl)
      THEN /\ u.ret = lease.mask
           /\ u.ilease[in].i_lease_ttl = ttl
           /\ u.ilease[in].i_lease_gen = sessions[s].s_cap_gen
           /\ u.ilease[in].i_lease_mask = lease.mask
      ELSE /\ u.ret = {}
           /\ u.ilease = ilease
           /\ u.sessions = sessions
           /\ u.i_count = i_count

\* inode 1 holds a lease of session 1 until 2 taken before the session's
\* cap_gen moved on; session 2's lease was just ignored, and a lease of
\* session 1 that ends earlier is accepted for the gen alone
C27_Witness ==
  /\ last = [op |-> "update_lease", res |-> "ignored"]
  /\ ilease[1].i_lease_session = 1 /\ ilease[1].i_lease_ttl = 2
  /\ ilease[1].i_lease_gen # sessions[1].s_cap_gen
  /\ \E lease \in Leases :
       /\ lease.mask # {} /\ lease.duration_ms = 0
       /\ LeaseAfter(LeaseNow, 1, 2, lease, jiffies).ret = {}
       /\ LeaseAfter(LeaseNow, 1, 1, lease, jiffies).ret = lease.mask
       /\ LeaseAfter(LeaseNow, 1, 1, lease, jiffies).ilease[1].i_lease_ttl = 1

\* thread p, inside update_dentry_lease for the session that holds the
\* dentry's lease record, takes a step
RenewsDentryLease(p) ==
  /\ run[p].op = "update_dentry_lease" /\ run'[p] # run[p]
  /\ run[p].a.lease.mask # {}
  /\ IsSome(dentries[run[p].a.dn].d_fsdata)
  /\ dentries[run[p].a.dn].d_fsdata[1].lease_session = run[p].a.s

\* C28: over update_dentry_lease calls with non-empty masks from one session
\* at one cap_gen the dentry's lease expiry d_time never moves to an earlier
\* time: a call whose ttl is before the recorded one leaves d_time and the
\* session's lease list as they are.
C28_DentryLeaseNeverEarlier ==
  [][\A p \in Threads : RenewsDentryLease(p) =>
       \E dn \in {run[p].a.dn},
          ttl \in {lease_ttl(run[p].a.from_time, run[p].a.lease.duration_ms)} :
         /\ dentries'[dn].d_time >= dentries[dn].d_time
         /\ time_before(ttl, dentries[dn].d_time) =>
              /\ dentries'[dn].d_time = dentries[dn].d_time
              /\ s_dentry_leases' = s_dentry_leases]_vars

\* the takings and releases of parent i_mutexes in a trail of events
MutexEvents(ev) == SelectSeq(ev, LAMBDA e : e[1] \in {"lock", "unlock"})

\* every taking is followed by one release of the same mutex, and nothing is
\* released that was not taken
Balanced(m) ==
  /\ Len(m) % 2 = 0
  /\ \A i \in 1 .. Len(m) :
       i % 2 = 1 => m[i][1] = "lock" /\ m[i + 1] = << "unlock", m[i][2] >>

\* the replies, callers and allocation outcomes the walks are tried with:
\* positive and null traces one and two names deep, with and without leases
\* and one that ends in a symbolic link
LinkTrace ==
  [Trace(<< 1, 3 >>, << "a" >>, NoLease, NoLease, 0)
     EXCEPT !.trace_in[2].info = TypedReply(1, S_IFLNK)]
MutexTraces ==
  { Trace(sh[1], sh[2], NoLease, NoLease, 0) :
      sh \in { << << 1, 2 >>, << "a" >> >>, << << 1, 3 >>, << "a" >> >>,
               << << 1 >>, << "a" >> >>, << << 1, 2, 3 >>, << "a", "b" >> >>,
               << << 1, 2 >>, << "a", "b" >> >> } }
  \cup { Trace(sh[1], sh[2], [mask |-> CEPH_LOCK_ICONTENT, duration_ms |-> 4], DnLease, 0) :
           sh \in { << << 1, 2 >>, << "a" >> >>, << << 1 >>, << "a" >> >> } }
  \cup { LinkTrace }
MutexKinds == { k \in ReqKinds : k.started = 0 /\ k.name = "a" }
MutexAllocs ==
  { TraceAllocOk, [TraceAllocOk EXCEPT !.inode_ok = FALSE],
    [TraceAllocOk EXCEPT !.dentry_ok = FALSE],
    [TraceAllocOk EXCEPT !.fill.sym_ok = FALSE] }

\* C29: on every path of ceph_fill_trace that returns (normal attach, null
\* dentry, stale-dentry retry, dentry or inode allocation failure, fill-inode
\* failure, no-directory-mutex mode) a parent i_mutex taken by try-lock is
\* released exactly once before the next is taken or the function returns,
\* and the mutex the request holds (r_locked_dir) or another thread holds
\* (the try-lock failed) is never unlocked.
C29_ParentMutexReleasedOnce ==
  \A k \in MutexKinds, rinfo \in MutexTraces, a \in MutexAllocs :
    \A p \in {PrepareReq(World, k)} :
      (fault = "none" /\ req = NoReq /\ IsSome(p)) =>
        \A r \in {ceph_fill_trace(p[1], rinfo, 1, a)} :
          r.w.fault = "none" =>
            /\ Balanced(MutexEvents(r.w.ev))
            /\ \A e \in Range(MutexEvents(r.w.ev)) :
                 e[2] # p[1].req.r_locked_dir /\ ~p[1].i_mutex[e[2]]

\* a walk two names deep took and released the i_mutex of the root and of
\* the directory below it; the root's is now held by another thread, so the
\* walks from here go without it, and a request that holds it finds it held
C29_Witness ==
  /\ last.op = "fill_trace" /\ fault = "none" /\ req = NoReq
  /\ MutexEvents(last.ev) = << << "lock", 1 >>, << "unlock", 1 >>,
                               << "lock", 2 >>, << "unlock", 2 >> >>
  /\ \E rinfo \in MutexTraces, a \in MutexAllocs :
       \E r \in {ceph_fill_trace([World EXCEPT !.i_mutex[1] = TRUE], rinfo, 1, a)} :
         r.w.fault = "none" /\ r.err < 0
           /\ MutexEvents(r.w.ev) = << >>

\* the MDS's delegation of a directory's root frag: authority 0, one replica
Delegation == CHOOSE d \in RootDirInfos : d.auth = 0

\* a reply trace /a/b in which the root and the directory a carry the
\* delegation of their frag
DirTrace ==
  [Trace(<< 1, 2, 3 >>, << "a", "b" >>, NoLease, NoLease, 0)
     EXCEPT !.trace_dir = << Some(Delegation), Some(Delegation), None >>]

\* the cached inodes of world w with inode number ino
Cached(w, ino) ==
  { in \in DOMAIN w.icache : w.icache[in].i_state = "live" /\ w.icache[in].vino.ino = ino }

\* C30: for every trace position d whose inode trace_in[d+1] is a directory
\* followed by a further dentry, ceph_fill_trace calls ceph_fill_inode with
\* the reply's trace_dir[d+1], so that after the walk the inode's fragment
\* tree records the authority and replicas the reply carried for the frag.
C30_TraceDelegationRecorded ==
  \A p \in {PrepareReq(World, [kind |-> "none", name |-> "a", started |-> 0])} :
    (fault = "none" /\ req = NoReq /\ IsSome(p)) =>
      \A r \in {ceph_fill_trace(p[1], DirTrace, 1, TraceAllocOk)} :
        (r.w.fault = "none" /\ r.err = 0 /\ << "lookup", 1 >> \in Range(r.w.ev)) =>
          /\ Cached(r.w, 2) # {}
          /\ \A in \in Cached(r.w, 2) :
               /\ << "fill", in, DirTrace.trace_dir[2] >> \in Range(r.w.ev)
               /\ Delegation.frag \in DOMAIN r.w.i_fragtree[in]
               /\ r.w.i_fragtree[in][Delegation.frag].mds = Delegation.auth
               /\ r.w.i_fragtree[in][Delegation.frag].dist = Delegation.dist

\* a reply trace /a whose walk diverges into the snapdir of a
SnapTrace == Trace(<< 1, 2 >>, << "a" >>, NoLease, DnLease, 1)

\* the dentry dn of world w is bound to the snapdir inode of inode number ino
AtSnapdir(w, dn, ino) ==
  /\ dn # NoDentry
  /\ w.dentries[dn].d_inode # 0
  /\ w.icache[w.dentries[dn].d_inode].vino = [ino |-> ino, snap |-> CEPH_SNAPDIR]

\* C31: when the walk reaches d = trace_numi - trace_snapdirpos - 1,
\* ceph_fill_trace goes on from a dentry bound to the snapdir inode of the
\* current inode (an alias of it, or a new dentry with the snapdir name), and
\* it does so without fault, with or without an alias.
C31_SnapdirReached ==
  \A p \in {PrepareReq(World, [kind |-> "none", name |-> "a", started |-> 0])} :
    (fault = "none" /\ req = NoReq /\ IsSome(p)) =>
      \A r \in {ceph_fill_trace(p[1], SnapTrace, 1, TraceAllocOk)} :
        (\E in \in Cached(r.w, 2) : << "fill", in, None >> \in Range(r.w.ev)) =>
          /\ r.w.fault = "none"
          /\ AtSnapdir(r.w, r.w.req.r_last_dentry, 2)

\* a trace /a/b that ends in a symbolic link
DeepLinkTrace ==
  [Trace(<< 1, 2, 3 >>, << "a", "b" >>, NoLease, NoLease, 0)
     EXCEPT !.trace_in[3].info = TypedReply(1, S_IFLNK)]

\* the replies and allocation outcomes of a walk that fails on the way: no
\* memory for an inode, none for the target of a symbolic link
FailTraces ==
  { Trace(<< 1, 2 >>, << "a" >>, NoLease, DnLease, 0),
    Trace(<< 1, 2, 3 >>, << "a", "b" >>, NoLease, DnLease, 0),
    LinkTrace, DeepLinkTrace }
FailAllocs ==
  { [TraceAllocOk EXCEPT !.inode_ok = FALSE], [TraceAllocOk EXCEPT !.fill.sym_ok = FALSE] }

\* the last position whose name the walk looked up
LastLookup(ev) ==
  LowestOf({ d \in 0 .. Len(ev) :
               /\ << "lookup", d >> \in Range(ev)
               /\ \A e \in 0 .. Len(ev) : << "lookup", e >> \in Range(ev) => e <= d })

\* the slots of world w that cache the inode vino
CachedVino(w, vino) ==
  { in \in DOMAIN w.icache : w.icache[in].i_state = "live" /\ w.icache[in].vino = vino }

\* the walk r failed at position d of rinfo, started in world w0; g is the
\* same walk with every allocation succeeding
FailedAt(w0, r, g, rinfo, d) ==
  /\ ~Positive(r.w, SubSeq(rinfo.trace_dname, 1, d + 1))        \* the dentry is deleted
  /\ r.w.req.r_last_inode = 0
  /\ \A k \in d + 3 .. rinfo.trace_numi :                        \* nothing later is touched
       /\ CachedVino(r.w, rinfo.trace_in[k].vino) = CachedVino(w0, rinfo.trace_in[k].vino)
       /\ \A in \in CachedVino(w0, rinfo.trace_in[k].vino) : r.w.ci[in] = w0.ci[in]
  /\ \A j \in 0 .. d - 1 :                                       \* the ancestors stay
       \E dn \in {PathDentry(g.w, SubSeq(rinfo.trace_dname, 1, j + 1))} :
         /\ PathDentry(r.w, SubSeq(rinfo.trace_dname, 1, j + 1)) = dn
         /\ dn # NoDentry =>
              [r.w.dentries[dn] EXCEPT !.d_count = 0] = [g.w.dentries[dn] EXCEPT !.d_count = 0]
  /\ \A k \in 1 .. d + 1 :
       /\ CachedVino(r.w, rinfo.trace_in[k].vino) # {}
       /\ \A in \in CachedVino(r.w, rinfo.trace_in[k].vino) :
            r.w.ci[in] = g.w.ci[in] /\ r.w.i_fragtree[in] = g.w.i_fragtree[in]

\* C32: when ceph_fill_trace fails at position d with the parent's i_mutex
\* taken (no memory for the inode, or ceph_fill_inode fails), the dentry of
\* position d is deleted, no later position is processed, the error is
\* returned, r_last_inode is none, and the inodes and dentries of the
\* positions before d keep the state the walk gave them.
C32_FailedWalkKeepsAncestors ==
  \A k \in SomeKinds, rinfo \in FailTraces, a \in FailAllocs :
    \A p \in {PrepareReq(World, k)} :
      (fault = "none" /\ req = NoReq /\ IsSome(p) /\ Fits(k, rinfo)) =>
        \A r \in {ceph_fill_trace(p[1], rinfo, 1, a)},
           g \in {ceph_fill_trace(p[1], rinfo, 1, TraceAllocOk)} :
          (r.w.fault = "none" /\ g.w.fault = "none" /\ r.err < 0
             /\ \E d \in 0 .. 1 : << "lookup", d >> \in Range(r.w.ev)) =>
            FailedAt(p[1], r, g, rinfo, LastLookup(r.w.ev))

\* the root is cached and nothing below it: from here a walk of /a finds no
\* memory for the inode of a at position 0, and a walk of /a/b binds a and
\* fails at position 1 on the target of the symbolic link b
C32_Witness ==
  /\ fault = "none" /\ req = NoReq /\ s_root # NoDentry
  /\ Cached(World, 2) = {} /\ Cached(World, 3) = {}
  /\ \A in \in DOMAIN i_mutex : ~i_mutex[in]
  /\ \E r \in {ceph_fill_trace(World, Trace(<< 1, 2 >>, << "a" >>, NoLease, DnLease, 0), 1,
                               [TraceAllocOk EXCEPT !.inode_ok = FALSE])} :
       r.w.fault = "none" /\ r.err < 0 /\ LastLookup(r.w.ev) = 0
  /\ \E r \in {ceph_fill_trace(World, DeepLinkTrace, 1,
                               [TraceAllocOk EXCEPT !.fill.sym_ok = FALSE])} :
       /\ r.w.fault = "none" /\ r.err < 0 /\ LastLookup(r.w.ev) = 1
       /\ BoundTo(r.w, << "a" >>, [ino |-> 2, snap |-> CEPH_NOSNAP])
       /\ ~Positive(r.w, << "a", "b" >>)

\* the replies and callers of a walk below a root whose i_mutex another
\* thread holds: a name bound, bound to another inode, unbound, two names
NoMutexTraces ==
  { Trace(sh[1], sh[2], il, DnLease, 0) :
      sh \in { << << 1, 2 >>, << "a" >> >>, << << 1, 3 >>, << "a" >> >>,
               << << 1 >>, << "a" >> >>, << << 1, 2, 3 >>, << "a", "b" >> >> },
      il \in { NoLease, [mask |-> CEPH_LOCK_ICONTENT, duration_ms |-> 4] } }
NoMutexKinds ==
  { k \in ReqKinds : k.started = 0 /\ k.name = "a" /\ k.kind \in {"none", "cached_nolock"} }

\* what a dentry is to a lookup: its place, its inode, its lease
Binding(d) == [d EXCEPT !.d_count = 0]

\* the walk r of rinfo from world w0 went through position 0 without the
\* i_mutex of the root: no lookup, the dentries under the root other than
\* those in keep as they are, the root's lease is as it was, and the inode
\* of position 1 is cached, filled and bound to the dentry the walk ends at
WentWithoutMutex(w0, r, rinfo, keep) ==
  /\ << "lookup", 0 >> \notin Range(r.w.ev)
  /\ \A dn \in DOMAIN w0.dentries \ keep :
       (w0.dentries[dn].live /\ dn # w0.s_root /\ w0.dentries[dn].d_parent = w0.s_root) =>
         Binding(r.w.dentries[dn]) = Binding(w0.dentries[dn])
  /\ r.w.ilease[w0.dentries[w0.s_root].d_inode] = w0.ilease[w0.dentries[w0.s_root].d_inode]
  /\ (rinfo.trace_numi > 1 /\ r.err = 0) =>
       /\ CachedVino(r.w, rinfo.trace_in[2].vino) # {}
       /\ \A in \in CachedVino(r.w, rinfo.trace_in[2].vino) :
            /\ << "fill", in, None >> \in Range(r.w.ev)
            /\ \E dn \in DOMAIN r.w.dentries :
                 r.w.dentries[dn].live /\ r.w.dentries[dn].d_inode = in

\* the calls that start with the root's mutex held by another thread
NoMutexCalls(P(_, _, _)) ==
  \A k \in NoMutexKinds, rinfo \in NoMutexTraces :
    \A p \in {PrepareReq(World, k)} :
      (fault = "none" /\ req = NoReq /\ IsSome(p) /\ s_root # NoDentry
         /\ i_mutex[dentries[s_root].d_inode]) =>
        \A r \in {ceph_fill_trace(p[1], rinfo, 1, TraceAllocOk)} :
          r.w.fault = "none" => P(p[1], r, rinfo)

\* C33 as stated: in an iteration of ceph_fill_trace that could not take the
\* parent's i_mutex no lookup by name is made, no existing dentry under the
\* parent is moved, rebound or has its lease changed, the parent's inode
\* lease is not renewed, and the next inode is fetched by vino, attached and
\* filled with trace_in[d+1]
C33_NoMutexNoRelink ==
  NoMutexCalls(LAMBDA w0, r, rinfo : WentWithoutMutex(w0, r, rinfo, {}))

\* the dentry the caller provided, if it is a dentry under the root, is not
\* moved and keeps its lease record; it is bound only if it was negative and
\* the reply names an inode for it, and unbound only by a null-dentry reply
ProvidedAsReplied(w0, r, rinfo) ==
  \A dn \in {w0.req.r_last_dentry} \ {NoDentry} :
    (w0.dentries[dn].live /\ dn # w0.s_root /\ w0.dentries[dn].d_parent = w0.s_root) =>
      /\ r.w.dentries[dn].live
      /\ r.w.dentries[dn].d_parent = w0.dentries[dn].d_parent
      /\ r.w.dentries[dn].d_name = w0.dentries[dn].d_name
      /\ r.w.dentries[dn].d_fsdata = w0.dentries[dn].d_fsdata
      /\ \/ /\ r.w.dentries[dn].d_inode = w0.dentries[dn].d_inode
            /\ r.w.dentries[dn].hashed = w0.dentries[dn].hashed
         \/ /\ w0.dentries[dn].d_inode = 0 /\ rinfo.trace_numi = 2
            /\ r.w.dentries[dn].hashed = w0.dentries[dn].hashed
         \/ rinfo.trace_numi = 1 /\ rinfo.trace_numd = 1

\* C33 amended: the same of every dentry under the parent but the one the
\* caller provided; that one is never moved, is bound to the next inode only
\* when it was negative, and is deleted when the reply ends in a null dentry
C33_NoMutexNoRelinkOfOthers ==
  NoMutexCalls(LAMBDA w0, r, rinfo :
                 /\ WentWithoutMutex(w0, r, rinfo, {w0.req.r_last_dentry})
                 /\ ProvidedAsReplied(w0, r, rinfo))

\* another thread holds the root's i_mutex and the name a is bound to inode
\* 2: a reply that binds a to inode 3 leaves the dentry of a alone and puts
\* inode 3 on an anonymous dentry, and a null-dentry reply to a caller that
\* provided the dentry of a unbinds it
C33_Witness ==
  /\ fault = "none" /\ req = NoReq /\ s_root # NoDentry
  /\ i_mutex[dentries[s_root].d_inode]
  /\ BoundTo(World, << "a" >>, [ino |-> 2, snap |-> CEPH_NOSNAP])
  /\ CachedVino(World, [ino |-> 3, snap |-> CEPH_NOSNAP]) = {}
  /\ \E r \in {ceph_fill_trace(World, Trace(<< 1, 3 >>, << "a" >>, NoLease, DnLease, 0), 1,
                               TraceAllocOk)} :
       /\ r.w.fault = "none" /\ r.err = 0
       /\ BoundTo(r.w, << "a" >>, [ino |-> 2, snap |-> CEPH_NOSNAP])
       /\ r.w.req.r_last_dentry # NoDentry
       /\ r.w.dentries[r.w.req.r_last_dentry].d_parent = r.w.req.r_last_dentry
       /\ r.w.icache[r.w.dentries[r.w.req.r_last_dentry].d_inode].vino
            = [ino |-> 3, snap |-> CEPH_NOSNAP]
  /\ \E p \in {PrepareReq(World, [kind |-> "cached_nolock", name |-> "a", started |-> 0])} :
       /\ IsSome(p)
       /\ \E r \in {ceph_fill_trace(p[1], Trace(<< 1 >>, << "a" >>, NoLease, DnLease, 0), 1,
                                    TraceAllocOk)} :
            r.w.fault = "none" /\ ~Positive(r.w, << "a" >>)

\* how often e is in the trail, and the threads that read v as the pending
\* truncation and have not truncated yet
Sent(e) == Cardinality({k \in DOMAIN Trail : Trail[k] = e})
ReadersOf(v) == {p \in Threads : run[p].pc = "vt_test" /\ run[p].v.to = v}

\* a queued truncation is pending, or read by one call, or made, once in all;
\* it is none of these only when a later one was queued over it
ConsumedOnce(in, v) ==
  LET left == Sent(<< "vmtruncate", v >>) + Cardinality(ReadersOf(v))
                + (IF ci[in].i_vmtruncate_to = v THEN 1 ELSE 0)
  IN IF Sent(<< "set", v >>) = 0 THEN left = 0
     ELSE \/ left = 1
          \/ /\ left = 0
             /\ \E j, k \in DOMAIN Trail :
                  j < k /\ Trail[j] = << "set", v >> /\ Trail[k][1] = "set"

\* the steps of a call by thread p on inode in: the read, the reset and the
\* read of i_wrbuffer_ref are one step under the i_lock, the pages are
\* truncated when the value read is >= 0, the cap check is scheduled when
\* moreover the i_wrbuffer_ref read was 0
PendingStep(p, in) ==
  /\ run[p].pc = "vt_locked" =>
       /\ ILock(in) \in HeldIn(run[p])
       /\ run'[p].v.to = ci[in].i_vmtruncate_to
       /\ run'[p].v.wrbuffer_refs = ci[in].i_wrbuffer_ref
       /\ ci'[in].i_vmtruncate_to = -1
       /\ Trail' = Trail
  /\ run[p].pc = "vt_test" =>
       /\ ci' = ci
       /\ IF run[p].v.to >= 0
          THEN Trail' = Append(Trail, << "vmtruncate", run[p].v.to >>)
          ELSE Trail' = Trail /\ run'[p].pc = "vt_done"
  /\ run[p].pc = "vt_check" =>
       /\ ci' = ci
       /\ run[p].v.to >= 0
       /\ Trail' = IF run[p].v.wrbuffer_refs = 0
                   THEN Append(Trail, << "check_caps", in >>) ELSE Trail
  /\ run[p].pc \notin {"vt_test", "vt_check"} => Trail' = Trail

\* C34: with the truncate worker, setattr and cap processing running on one
\* inode, every queued truncation is consumed by one call of
\* __ceph_do_pending_vmtruncate and the pages are truncated to it once; the
\* call reads the value, resets it to -1 and reads i_wrbuffer_ref in one step
\* under the i_lock, truncates when the value read is >= 0, schedules the cap
\* check exactly when moreover the i_wrbuffer_ref read was 0, and does neither
\* when it read -1
C34_PendingTruncateConsumedOnce ==
  /\ [](\A v \in 0 .. MaxTrunc - 1 : ConsumedOnce(2, v))
  /\ [][\A p \in Threads : run'[p] # run[p] => PendingStep(p, 2)]_vars

\* both truncations were queued and made, one with the buffered writes
\* holding their reference and one without, and a call found nothing pending
C34_Witness ==
  /\ \E p \in Threads : run[p].pc = "vt_done" /\ run[p].v.to = -1
  /\ \A v \in 0 .. 1 : Sent(<< "set", v >>) = 1 /\ Sent(<< "vmtruncate", v >>) = 1
  /\ Sent(<< "check_caps", 2 >>) = 1
  /\ ci[2].i_vmtruncate_to = -1

\* the inode fields c with no xattr blob cached, and the bytes the virtual
\* names add to its listing
NoBlob(c) == [c EXCEPT !.i_xattr_len = 0, !.i_xattr_data = None]
VirLenOf(c) == IF c.i_mode = S_IFDIR THEN VirNamesLen ELSE 0

\* C35 as stated: for an inode with i_xattr_len == 0, ceph_listxattr with
\* size == 0 returns a length without the virtual names (0, there being no
\* real names), whereas with a buffer it returns a length that includes them
C35_MeasureOmitsVirtual ==
  fault = "none" =>
    \A c \in {NoBlob(ci[1])} :
      /\ ceph_listxattr(c, 0, 0, NewBuf(0)).ret = 0
      /\ ceph_listxattr(c, 0, VirNamesLen + 1, NewBuf(VirNamesLen + 1)).ret = VirLenOf(c)

\* C35 amended: for an inode with i_xattr_len == 0, ceph_listxattr with
\* size == 0 returns the length of the virtual names for a directory and 0
\* otherwise, the length the call with a buffer returns and lists
C35_MeasureIncludesVirtual ==
  fault = "none" =>
    \A c \in {NoBlob(ci[1])} :
      /\ ceph_listxattr(c, 0, 0, NewBuf(0)).ret = VirLenOf(c)
      /\ \A r \in {ceph_listxattr(c, 0, VirNamesLen + 1, NewBuf(VirNamesLen + 1))} :
           /\ r.ret = VirLenOf(c)
           /\ c.i_mode = S_IFDIR => SubSeq(r.buf, 1, r.ret) = VirNamesOf(1)

\* a directory with no blob cached was measured: the length of the eight
\* virtual names came back
C35_Witness ==
  /\ last.op = "listxattr" /\ last.size = 0 /\ last.in = 1
  /\ ci[1].i_mode = S_IFDIR /\ ci[1].i_xattr_len = 0
  /\ last.ret = VirNamesLen /\ VirNamesLen > 0

\* the step of thread p, inside update_dentry_lease for session s on dentry
\* dn, installs the lease or refreshes it: the dentry is left with a lease of
\* s that lasts until the new ttl
LeaseWritten(p) ==
  /\ run[p].op = "update_dentry_lease" /\ run[p].pc \in {"locked", "new"}
  /\ run'[p] # run[p]
  /\ \E dn \in {run[p].a.dn} :
       /\ dentries'[dn] # dentries[dn] \/ s_dentry_leases' # s_dentry_leases
       /\ IsSome(dentries'[dn].d_fsdata)
       /\ dentries'[dn].d_fsdata[1].lease_session = run[p].a.s
       /\ dentries'[dn].d_time = lease_ttl(run[p].a.from_time, run[p].a.lease.duration_ms)

\* C36: whenever update_dentry_lease installs or refreshes a dentry lease
\* from a session whose cap_gen is g, the lease gen recorded on the dentry
\* afterwards is g, also when the lease is renewed after the session's
\* cap_gen was incremented
C36_LeaseGenIsSessionGen ==
  [][\A p \in Threads :
       LeaseWritten(p) =>
         dentries'[run[p].a.dn].d_fsdata[1].lease_gen = sessions[run[p].a.s].s_cap_gen]_vars

\* C37: in ceph_readdir_prepopulate, when the inode of an entry cannot be
\* fetched or made, the entry's dentry is deleted, nothing is spliced, filled
\* or leased, processing stops without fault and -ENOMEM is returned, the
\* entries before it keeping what they were given
C37_ReaddirInodeFailure ==
  (fault = "none" /\ req = NoReq /\ s_root # NoDentry) =>
    \A rinfo \in {Readdir(<< DirEntry("a", 2, S_IFREG, NoLease),
                            DirEntry("b", 3, S_IFDIR, NoLease) >>)} :
      \A r \in {ceph_readdir_prepopulate(ReaddirReq(World), rinfo, 1,
                                         [TraceAllocOk EXCEPT !.inode_ok = FALSE])} :
        \A g \in {ceph_readdir_prepopulate(ReaddirReq(World), rinfo, 1, TraceAllocOk)} :
          (g.w.fault = "none" /\ Cached(World, 2) # {} /\ Cached(World, 3) = {}
           /\ ~Positive(World, << "b" >>)) =>
            /\ r.w.fault = "none"
            /\ r.err = -ENOMEM
            /\ ~Positive(r.w, << "b" >>)
            /\ Cached(r.w, 3) = {}
            /\ BoundTo(r.w, << "a" >>, [ino |-> 2, snap |-> CEPH_NOSNAP])

\* C38: after ceph_fill_inode took the update path the cached xattr blob is
\* the reply's in length and content (empty when the reply carries none), and
\* a non-zero cached length comes with a buffer of that many bytes, also when
\* the buffer could not be allocated
C38_XattrBlobIsReplys ==
  fault = "none" =>
    \A r \in XattrReplies, xattr_ok \in BOOLEAN :
      (r.version = 0 \/ r.version # ci[1].i_version) =>
        \A u \in {fill_update(ci[1], issued[1], r, xattr_ok)} :
          /\ u.fault = "none"
          /\ u.c.i_xattr_len = r.xattr_len
          /\ u.c.i_xattr_len # 0 =>
               /\ IsSome(u.c.i_xattr_data)
               /\ u.c.i_xattr_data[1] = r.xattr_data
               /\ Len(u.c.i_xattr_data[1]) = u.c.i_xattr_len

\* how often e is in the trail ev
CountOf(ev, e) == Cardinality({k \in DOMAIN ev : ev[k] = e})

\* the replies the retry loop is tried with: a name bound to either inode or
\* to none, one and two names deep
RetryTraces ==
  { Trace(sh[1], sh[2], NoLease, NoLease, 0) :
      sh \in { << << 1, 2 >>, << "a" >> >>, << << 1, 3 >>, << "a" >> >>,
               << << 1 >>, << "a" >> >>,
               << << 1, 2, 3 >>, << "a", "b" >> >>, << << 1, 3, 2 >>, << "a", "b" >> >>,
               << << 1, 3 >>, << "a", "b" >> >> } }

\* C39: at every position of ceph_fill_trace and every entry of
\* ceph_readdir_prepopulate the delete-and-retry lookup ends: after the
\* dentry was deleted the next lookup of the name finds none that is deleted
\* again, so a position is retried at most once
C39_RetryAtMostOnce ==
  /\ \A k \in SomeKinds, rinfo \in RetryTraces :
       \A p \in {PrepareReq(World, k)} :
         (fault = "none" /\ req = NoReq /\ IsSome(p) /\ Fits(k, rinfo)) =>
           \A r \in {ceph_fill_trace(p[1], rinfo, 1, TraceAllocOk)} :
             /\ r.w.fault # "livelock"
             /\ \A d \in 0 .. rinfo.trace_numd - 1 :
                  /\ CountOf(r.w.ev, << "retry", d >>) <= 1
                  /\ CountOf(r.w.ev, << "lookup", d >>)
                       <= 1 + CountOf(r.w.ev, << "retry", d >>)
  /\ \A rinfo \in ReaddirReplies :
       (fault = "none" /\ req = NoReq /\ s_root # NoDentry) =>
         \A r \in {ceph_readdir_prepopulate(ReaddirReq(World), rinfo, 1, TraceAllocOk)} :
           /\ r.w.fault # "livelock"
           /\ \A i \in 1 .. Len(rinfo.entries) :
                /\ CountOf(r.w.ev, << "retry", rinfo.entries[i].name >>) <= 1
                /\ CountOf(r.w.ev, << "lookup", rinfo.entries[i].name >>)
                     <= 1 + CountOf(r.w.ev, << "retry", rinfo.entries[i].name >>)

\* a reply found the name a bound to another inode: the binding was deleted,
\* the name looked up a second time and bound to the reply's inode
C39_Witness ==
  /\ last.op = "fill_trace" /\ fault = "none"
  /\ CountOf(last.ev, << "retry", 0 >>) = 1 /\ CountOf(last.ev, << "lookup", 0 >>) = 2
  /\ \E ino \in {2, 3} : BoundTo(World, << "a" >>, [ino |-> ino, snap |-> CEPH_NOSNAP])

\* C40: a request of rgw_bucket_modify that names an entry the directory
\* holds is applied (ADD replaces the entry, DEL removes it) only if its
\* epoch is greater than the epoch stored in the entry; with an older or
\* equal epoch it returns 0 and the stored directory stays as it is; a DEL of
\* a name the directory does not hold returns -ENOENT and nothing is written
C40_StoredEpochGuards ==
  \A in \in {q \in RgwRequests : q.ok} :
    \A r \in {rgw_bucket_modify(bucket, in, IoOk)} :
      /\ (in.entry.name \in DOMAIN bucket.m /\ in.epoch <= bucket.m[in.entry.name].epoch) =>
           r.ret = 0 /\ r.obj = bucket
      /\ (in.entry.name \in DOMAIN bucket.m /\ r.obj # bucket) =>
           in.epoch > bucket.m[in.entry.name].epoch
      /\ (in.entry.name \notin DOMAIN bucket.m /\ in.op = CLS_RGW_OP_DEL) =>
           r.ret = -ENOENT /\ r.obj = bucket

====
